---- MODULE Spec2Model ----
(***************************************************************************)
(* A model of rust-snmp-collector: the Carbon sender and its supervisor    *)
(* (src/src/output.rs), the join of the instance column with a value       *)
(* column and the HPE Comware workaround (src/src/collector.rs), the       *)
(* bulk-walk (src/src/snmp.rs), the device supervisor with its session and *)
(* cycle pacing, the collect_map and its bulk-walks (collector.rs), the    *)
(* formatter loop (src/src/main.rs) and the metric names (output.rs).      *)
(***************************************************************************)
EXTENDS Integers, Sequences, FiniteSets, Bags, TLC

\* ------------------------------------------------------------------ bounds
\* Number of CarbonMetricValues the formatter hands to the sender channel.
MaxMetrics == 3

\* Row indexes of the device's tables are 1..MaxIndex.
MaxIndex == 3

\* GetBulkRequests one call of snmp_bulkwalk sends at most in the model.
MaxRequests == 2

\* Bindings a GetBulk response carries at most.
MaxRepetitions == 2

\* Largest polling interval a device is configured with, in ticks of the clock.
MaxInterval == 3

\* Bulk-walks one polling cycle of the paced device performs.
MaxWalks == 2

\* Ticks one SNMP exchange takes at most (the client's timeout).
MaxLatency == 2

\* Ticks thread::sleep may return late.
MaxOversleep == 1

\* Data-entry names a device's collect list holds at most.
MaxCollect == 2

\* Readings the collectors send to the formatter.
MaxReadings == 3

\* Length of the device names and key strings handed to sanitize_carbon.
MaxLen == 3

\* Length of each of the three strings handed to format_key.
MaxPartLen == 1

\* Assignments one call of build_snmp_mib_tree looks up at most in the model.
MaxLookups == 6

\* ------------------------------------------------------------------ state
VARIABLES
    \* --- output.rs: the sender task and its channel
    channel,        \* contents of the crossbeam channel (channel_sender/channel_receiver)
    metricval,      \* the metrics carbon_send holds after recv() (its local `metricval`)
    stream,         \* what the TcpStream(s) accepted: <<[m, complete]>> in write order
    sender_pc,      \* position of the sender task in carbon_send_safe / carbon_send
    reachable,      \* the Carbon endpoint accepts connections and writes
    accepted,       \* history: every metric the channel accepted from the formatter
    reinjected,     \* history: metrics sent back onto the channel after a failed write
    behind,         \* history: behind[m] = metrics queued when m was last sent back
    \* --- collector.rs: one polling cycle of collect_device_
    collect_pc,     \* position in collect_device_
    collect_values, \* value columns of the collect_map entry not yet walked in this cycle
    collect_value,  \* the value column being joined
    table_names,    \* result of the bulk-walk of the instance column
    table_values,   \* result of the bulk-walk of collect_value
    hpe_comware_workaround_var_binds, \* name binds without a row in table_values
    get_request,    \* history: the bindings of the workaround GetRequest
    hpe_comware_snmp_data, \* the bindings the workaround GetRequest returned
    snmp_chan,      \* history: the readings sent for collect_value, in send order
    \* --- snmp.rs: one call of snmp_bulkwalk
    walk_pc,        \* position in snmp_bulkwalk
    request_var_binds, \* the OID the next GetBulkRequest starts at
    result,         \* the bindings accumulated so far
    received,       \* history: every binding of every response, in response order
    response,       \* the answer to the latest GetBulkRequest
    requests,       \* history: number of GetBulkRequests sent
    \* --- collector.rs: the device supervisor, the session and the cycle pacing
    dev_pc,         \* position in collect_device_safe / collect_device_
    interval,       \* device.interval
    session,        \* the Client/Session of collect_device_: none, live or failed
    todo,           \* SNMP exchanges the running cycle still has to make
    clock,          \* start_time.elapsed(): ticks since the latest cycle start, -1 before the first
    snmp_duration,  \* the duration measured for the latest cycle (at its end or at its error)
    wait,           \* the duration handed to the pacing sleep
    slept,          \* history: ticks slept in backoff since the latest error
    startup_delays, \* the startup delays the supervisor slept, in order
    \* --- collector.rs: collect_map and the bulk-walks of a cycle
    device_collect, \* device.collect: the data-entry names configured for the device
    device_collect_map, \* the collect_map built from device_collect
    map_pc,         \* position in collect_device_
    keys_left,      \* collect_map entries the cycle has not visited yet
    map_key,        \* the instance column being collected
    vals_left,      \* value columns of map_key not walked yet
    bulkwalks,      \* history: the bulk-walks of the running cycle, in order
    \* --- main.rs: the formatter loop between the result channel and the sender channel
    snmp_chan_receiver,\* contents of the result channel (snmp_chan_sender/snmp_chan_receiver)
    fmt_pc,         \* position of the formatter loop
    fmt_received,   \* history: the readings the formatter received, in order
    carbon_chan_sender,\* history: the CarbonMetricValues the formatter sent, in order
    results_sent,   \* history: number of readings the collectors sent
    \* --- output.rs: a call of sanitize_carbon
    san_pc,         \* position: before or after the call
    san_in,         \* the string sanitize_carbon is called with
    san_out,        \* the string it returned
    \* --- output.rs: a call of format_key
    fk_pc,          \* position: before or after the call
    fk_device,      \* the device name format_key is called with
    fk_variable,    \* the key string (variable_part) it is called with
    fk_metric,      \* the value symbol (metric_name) it is called with
    fk_key,         \* the metric name it returned
    \* --- snmp.rs: a call of build_snmp_mib_tree
    res_pc,         \* position in build_snmp_mib_tree
    res_module,     \* the name of the module the symbol is resolved in
    res_symbol,     \* history: the symbol the call was made for
    oid_field,      \* the working symbol (its local oid_field)
    tree_oid,       \* the sub-identifiers pushed so far, leaf first
    full_oid,       \* the OID returned
    looked_up,      \* history: the symbols looked up in the module, in order
    \* --- main.rs: startup up to the spawning of the tasks
    start_pc,       \* position in main
    data_keys,      \* the keys of config.data
    devices,        \* config.devices: device name to its collect list
    mib_symbols,    \* the symbolic OIDs the MIB files on disk resolve
    required_oids,  \* symbolic OIDs main has not resolved yet
    resolved,       \* the keys of the oid_var_bind_map main built
    spawned,        \* the tasks spawned so far
    \* --- config.rs: from_directory
    cfg_pc,         \* position in from_directory
    directory,      \* the parsed *.yaml files of the directory
    files_left,     \* files the loop has not merged yet
    merged_output,  \* config.output: no element (None) or one (Some)
    merged_data,    \* config.data: no element (None) or one map (Some)
    merged_devices  \* config.devices: no element (None) or one map (Some)

senderVars == <<channel, metricval, stream, sender_pc, reachable, accepted, reinjected, behind>>

collectVars == <<collect_pc, collect_values, collect_value, table_names, table_values,
                 hpe_comware_workaround_var_binds, get_request, hpe_comware_snmp_data, snmp_chan>>

walkVars == <<walk_pc, request_var_binds, result, received, response, requests>>

deviceVars == <<dev_pc, interval, session, todo, clock, snmp_duration, wait, slept, startup_delays>>

cycleVars == <<device_collect, device_collect_map, map_pc, keys_left, map_key, vals_left, bulkwalks>>

formatVars == <<snmp_chan_receiver, fmt_pc, fmt_received, carbon_chan_sender, results_sent>>

sanitizeVars == <<san_pc, san_in, san_out>>

keyVars == <<fk_pc, fk_device, fk_variable, fk_metric, fk_key>>

resolveVars == <<res_pc, res_module, res_symbol, oid_field, tree_oid, full_oid, looked_up>>

startVars == <<start_pc, data_keys, devices, mib_symbols, required_oids, resolved, spawned>>

configVars == <<cfg_pc, directory, files_left, merged_output, merged_data, merged_devices>>

vars == <<channel, metricval, stream, sender_pc, reachable, accepted, reinjected, behind,
          collect_pc, collect_values, collect_value, table_names, table_values,
          hpe_comware_workaround_var_binds, get_request, hpe_comware_snmp_data, snmp_chan,
          walk_pc, request_var_binds, result, received, response, requests,
          dev_pc, interval, session, todo, clock, snmp_duration, wait, slept, startup_delays,
          device_collect, device_collect_map, map_pc, keys_left, map_key, vals_left, bulkwalks,
          snmp_chan_receiver, fmt_pc, fmt_received, carbon_chan_sender, results_sent,
          san_pc, san_in, san_out,
          fk_pc, fk_device, fk_variable, fk_metric, fk_key,
          res_pc, res_module, res_symbol, oid_field, tree_oid, full_oid, looked_up,
          start_pc, data_keys, devices, mib_symbols, required_oids, resolved, spawned,
          cfg_pc, directory, files_left, merged_output, merged_data, merged_devices>>

Metrics == 1..MaxMetrics

\* ------------------------------------------------------------ helpers
Range(s) == {s[i] : i \in DOMAIN s}

BagOfSeq(s) == [x \in Range(s) |-> Cardinality({i \in DOMAIN s : s[i] = x})]


\* The collector's variables while another part of the program is examined.
CollectIdle ==
    /\ collect_pc = "idle"
    /\ collect_values = {}
    /\ collect_value = <<>>
    /\ table_names = <<>>
    /\ table_values = <<>>
    /\ hpe_comware_workaround_var_binds = <<>>
    /\ get_request = <<>>
    /\ hpe_comware_snmp_data = <<>>
    /\ snmp_chan = <<>>

\* The bulk-walk's variables while another part of the program is examined.
WalkIdle ==
    /\ walk_pc = "idle"
    /\ request_var_binds = <<>>
    /\ result = <<>>
    /\ received = <<>>
    /\ response = [kind |-> "pending", binds |-> <<>>]
    /\ requests = 0

\* The device supervisor's variables while another part of the program is examined.
DeviceIdle ==
    /\ dev_pc = "idle"
    /\ interval = 0
    /\ session = "none"
    /\ todo = 0
    /\ clock = -1
    /\ snmp_duration = 0
    /\ wait = 0
    /\ slept = 0
    /\ startup_delays = <<>>

\* The variables of collector.rs: collect_map and the bulk-walks of a cycle while another part of the program is examined.
CycleIdle ==
    /\ device_collect = <<>>
    /\ device_collect_map = <<>>
    /\ map_pc = "idle"
    /\ keys_left = {}
    /\ map_key = <<>>
    /\ vals_left = {}
    /\ bulkwalks = <<>>

\* The variables of main.rs: the formatter loop between the result channel and the sender channel while another part of the program is examined.
FormatIdle ==
    /\ snmp_chan_receiver = <<>>
    /\ fmt_pc = "idle"
    /\ fmt_received = <<>>
    /\ carbon_chan_sender = <<>>
    /\ results_sent = 0

\* The variables of output.rs: a call of sanitize_carbon while another part of the program is examined.
SanitizeIdle ==
    /\ san_pc = "idle"
    /\ san_in = <<>>
    /\ san_out = <<>>

\* The variables of output.rs: a call of format_key while another part of the program is examined.
KeyIdle ==
    /\ fk_pc = "idle"
    /\ fk_device = <<>>
    /\ fk_variable = <<>>
    /\ fk_metric = <<>>
    /\ fk_key = <<>>

\* The variables of snmp.rs: a call of build_snmp_mib_tree while another part of the program is examined.
ResolveIdle ==
    /\ res_pc = "idle"
    /\ res_module = ""
    /\ res_symbol = ""
    /\ oid_field = ""
    /\ tree_oid = <<>>
    /\ full_oid = <<>>
    /\ looked_up = <<>>

\* The variables of main.rs: startup up to the spawning of the tasks while another part of the program is examined.
StartIdle ==
    /\ start_pc = "idle"
    /\ data_keys = {}
    /\ devices = <<>>
    /\ mib_symbols = {}
    /\ required_oids = {}
    /\ resolved = {}
    /\ spawned = {}

\* The variables of config.rs: from_directory while another part of the program is examined.
ConfigIdle ==
    /\ cfg_pc = "idle"
    /\ directory = {}
    /\ files_left = {}
    /\ merged_output = {}
    /\ merged_data = {}
    /\ merged_devices = {}

\* The sender's variables while another part of the program is examined.
SenderIdle ==
    /\ channel = <<>>
    /\ metricval = <<>>
    /\ stream = <<>>
    /\ sender_pc = "idle"
    /\ reachable = TRUE
    /\ accepted = <<>>
    /\ reinjected = {}
    /\ behind = [m \in Metrics |-> {}]

\* ------------------------------------------------------- output.rs: sender
SenderInit ==
    /\ channel = <<>>
    /\ metricval = <<>>
    /\ stream = <<>>
    /\ sender_pc = "connect"
    /\ reachable \in BOOLEAN
    /\ accepted = <<>>
    /\ reinjected = {}
    /\ behind = [m \in Metrics |-> {}]
    /\ CollectIdle
    /\ WalkIdle
    /\ DeviceIdle
    /\ CycleIdle
    /\ FormatIdle
    /\ SanitizeIdle
    /\ KeyIdle
    /\ ResolveIdle
    /\ StartIdle
    /\ ConfigIdle

\* main.rs: carbon_chan_sender.send(CarbonMetricValue {..}).unwrap()
formatter_send ==
    /\ Len(accepted) < MaxMetrics
    /\ LET m == Len(accepted) + 1
       IN  /\ channel' = Append(channel, m)
           /\ accepted' = Append(accepted, m)
    /\ UNCHANGED <<metricval, stream, sender_pc, reachable, reinjected, behind>>
    /\ UNCHANGED <<collectVars, walkVars, deviceVars, cycleVars, formatVars, sanitizeVars, keyVars, resolveVars, startVars, configVars>>

\* The Carbon endpoint goes away or comes back (environment).
endpoint_change ==
    /\ reachable' = ~reachable
    /\ UNCHANGED <<channel, metricval, stream, sender_pc, accepted, reinjected, behind>>
    /\ UNCHANGED <<collectVars, walkVars, deviceVars, cycleVars, formatVars, sanitizeVars, keyVars, resolveVars, startVars, configVars>>

\* carbon_send: let mut stream = TcpStream::connect(carbon_host)?;
carbon_connect ==
    /\ sender_pc = "connect"
    /\ sender_pc' = IF reachable THEN "recv" ELSE "backoff"
    /\ UNCHANGED <<channel, metricval, stream, reachable, accepted, reinjected, behind>>
    /\ UNCHANGED <<collectVars, walkVars, deviceVars, cycleVars, formatVars, sanitizeVars, keyVars, resolveVars, startVars, configVars>>

\* A faulty variant: the newest metric of the queue is taken first.
carbon_recv_last ==
    /\ sender_pc = "recv"
    /\ channel # <<>>
    /\ metricval' = Append(metricval, channel[Len(channel)])
    /\ channel' = SubSeq(channel, 1, Len(channel) - 1)
    /\ sender_pc' = "write"
    /\ UNCHANGED <<stream, reachable, accepted, reinjected, behind>>
    /\ UNCHANGED <<collectVars, walkVars, deviceVars, cycleVars, formatVars, sanitizeVars, keyVars, resolveVars, startVars, configVars>>

\* carbon_send: let metricval = channel_receiver.recv().unwrap();  (blocks while empty)
carbon_recv ==
    /\ sender_pc = "recv"
    /\ channel # <<>>
    /\ metricval' = Append(metricval, Head(channel))
    /\ channel' = Tail(channel)
    /\ sender_pc' = "write"
    /\ UNCHANGED <<stream, reachable, accepted, reinjected, behind>>
    /\ UNCHANGED <<collectVars, walkVars, deviceVars, cycleVars, formatVars, sanitizeVars, keyVars, resolveVars, startVars, configVars>>

\* carbon_send: let write = stream.write(line); if let Err(error) = write {..}
\* Write::write returns Ok(n) for any n <= len: Ok with n < len (a short write)
\* is taken for success, as is Ok(len).
carbon_write ==
    /\ sender_pc = "write"
    /\ \/ /\ reachable
          /\ stream' = Append(stream, [m |-> Head(metricval), complete |-> TRUE])
          /\ metricval' = Tail(metricval)
          /\ sender_pc' = "recv"
       \/ /\ ~reachable
          /\ stream' = Append(stream, [m |-> Head(metricval), complete |-> FALSE])
          /\ metricval' = Tail(metricval)
          /\ sender_pc' = "recv"
       \/ /\ ~reachable
          /\ sender_pc' = "reinject"
          /\ UNCHANGED <<stream, metricval>>
    /\ UNCHANGED <<channel, reachable, accepted, reinjected, behind>>
    /\ UNCHANGED <<collectVars, walkVars, deviceVars, cycleVars, formatVars, sanitizeVars, keyVars, resolveVars, startVars, configVars>>

\* A faulty variant: the error is returned without sending the metric back.
carbon_reinject_drop ==
    /\ sender_pc = "reinject"
    /\ metricval' = Tail(metricval)
    /\ sender_pc' = "backoff"
    /\ reinjected' = reinjected \cup {Head(metricval)}
    /\ UNCHANGED <<channel, stream, reachable, accepted, behind>>
    /\ UNCHANGED <<collectVars, walkVars, deviceVars, cycleVars, formatVars, sanitizeVars, keyVars, resolveVars, startVars, configVars>>

\* A faulty variant: the metric is put back at the head of the queue.
carbon_reinject_head ==
    /\ sender_pc = "reinject"
    /\ LET m == Head(metricval)
       IN  /\ channel' = <<m>> \o channel
           /\ reinjected' = reinjected \cup {m}
           /\ behind' = [x \in Metrics |->
                            IF x = m THEN Range(channel) ELSE behind[x] \ {m}]
    /\ metricval' = Tail(metricval)
    /\ sender_pc' = "backoff"
    /\ UNCHANGED <<stream, reachable, accepted>>
    /\ UNCHANGED <<collectVars, walkVars, deviceVars, cycleVars, formatVars, sanitizeVars, keyVars, resolveVars, startVars, configVars>>

\* carbon_send: channel_sender.send(metricval).unwrap(); return Err(error.into());
carbon_reinject ==
    /\ sender_pc = "reinject"
    /\ LET m == Head(metricval)
       IN  /\ channel' = Append(channel, m)
           /\ reinjected' = reinjected \cup {m}
           /\ behind' = [x \in Metrics |->
                            IF x = m THEN Range(channel) ELSE behind[x] \ {m}]
    /\ metricval' = Tail(metricval)
    /\ sender_pc' = "backoff"
    /\ UNCHANGED <<stream, reachable, accepted>>
    /\ UNCHANGED <<collectVars, walkVars, deviceVars, cycleVars, formatVars, sanitizeVars, keyVars, resolveVars, startVars, configVars>>

\* A faulty variant: the supervisor gives up after an error.
carbon_send_safe_exit ==
    /\ sender_pc = "backoff"
    /\ sender_pc' = "exit"
    /\ UNCHANGED <<channel, metricval, stream, reachable, accepted, reinjected, behind>>
    /\ UNCHANGED <<collectVars, walkVars, deviceVars, cycleVars, formatVars, sanitizeVars, keyVars, resolveVars, startVars, configVars>>

\* carbon_send_safe: if let Err(error) = sender { warn!; thread::sleep(backoff); info! } loop
carbon_send_safe ==
    /\ sender_pc = "backoff"
    /\ sender_pc' = "connect"
    /\ UNCHANGED <<channel, metricval, stream, reachable, accepted, reinjected, behind>>
    /\ UNCHANGED <<collectVars, walkVars, deviceVars, cycleVars, formatVars, sanitizeVars, keyVars, resolveVars, startVars, configVars>>

\* The steps of the sender task.
SenderTask ==
    \/ carbon_connect
    \/ carbon_recv
    \/ carbon_write
    \/ carbon_reinject
    \/ carbon_send_safe

SenderNext ==
    \/ formatter_send
    \/ endpoint_change
    \/ carbon_connect
    \/ carbon_recv
    \/ carbon_write
    \/ carbon_reinject
    \/ carbon_send_safe

SenderSpec == SenderInit /\ [][SenderNext]_vars

\* The sender is a thread of its own: it is scheduled, and its sleeps end.
SenderFairSpec == SenderSpec /\ WF_vars(SenderTask)

\* ------------------------------------------------------------ sender claims
\* The metrics in the order they stand in the pipeline: written, held, queued.
Pipeline == [i \in DOMAIN stream |-> stream[i].m] \o metricval \o channel

PosIn(s, x) == CHOOSE i \in DOMAIN s : s[i] = x

\* The lines that reached the stream whole.
CompleteLines == SelectSeq(stream, LAMBDA w : w.complete)

Written(m) == [m |-> m, complete |-> TRUE] \in Range(stream)

NoStream == {"connect", "backoff"}

\* C1: whenever carbon_send holds no dequeued metric, the multiset of metrics the
\* sender channel accepted equals the multiset of metrics written to the TCP
\* socket plus the multiset still in the channel: no accepted metric is dropped.
NoSilentDrops ==
    metricval = <<>> =>
        BagOfSeq(accepted) =
            BagOfSeq([i \in DOMAIN CompleteLines |-> CompleteLines[i].m]) (+) BagOfSeq(channel)

\* C2: at most one metric is in flight; a failed write leaves the metric and the
\* channel as they are, and the step that returns the error sends exactly that
\* metric, once, onto the channel; outside recv..return no metric is held.
WriteFailureReinjects ==
    /\ [](Len(metricval) <= 1)
    /\ [](sender_pc \in {"connect", "backoff", "recv"} => metricval = <<>>)
    /\ [](sender_pc \in {"write", "reinject"} => Len(metricval) = 1)
    /\ [][(sender_pc = "write" /\ sender_pc' = "reinject")
            => UNCHANGED <<metricval, channel, stream>>]_vars
    /\ [][(sender_pc = "reinject" /\ sender_pc' # "reinject")
            => /\ sender_pc' = "backoff"
               /\ channel' = Append(channel, Head(metricval))
               /\ metricval' = <<>>
               /\ stream' = stream]_vars
    /\ [][(sender_pc \notin {"reinject", "backoff"} /\ sender_pc' = "backoff")
            => (sender_pc = "connect" /\ channel' = channel)]_vars

\* C2 witness: the write of a metric failed and carbon_send returned the error
\* with that metric back at the end of the channel.
WriteFailureReinjectsWitness ==
    /\ sender_pc = "backoff"
    /\ reinjected # {}
    /\ channel # <<>>
    /\ channel[Len(channel)] \in reinjected
    /\ Len(channel) >= 2

\* C3: while the endpoint refuses connections and the sender has no stream, the
\* sender stays between connect and backoff, dequeues nothing, the channel only
\* grows, by one per metric the formatter sends; and if the endpoint refuses
\* for ever the connection is retried for ever.
RefusedConnectionBuffers ==
    /\ [][(~reachable /\ ~reachable' /\ sender_pc \in NoStream)
            => /\ sender_pc' \in NoStream
               /\ metricval' = <<>>
               /\ Len(channel') >= Len(channel)
               /\ SubSeq(channel', 1, Len(channel)) = channel
               /\ Len(channel') - Len(channel) = Len(accepted') - Len(accepted)]_vars
    /\ []((sender_pc \in NoStream /\ []~reachable)
            => ([]<>(sender_pc = "connect") /\ []<>(sender_pc = "backoff")))

\* C3 witness: connections are refused, the sender backs off, and everything the
\* formatter sent is buffered in the channel.
RefusedConnectionBuffersWitness ==
    /\ ~reachable
    /\ sender_pc = "backoff"
    /\ stream = <<>>
    /\ reinjected = {}
    /\ channel = accepted
    /\ Len(channel) = MaxMetrics

\* C4: once the endpoint is and stays reachable, every metric buffered in the
\* channel is eventually written whole to the socket; and a metric is written
\* before one accepted earlier only if the earlier one was sent back after a
\* failed write.
SenderRecovers ==
    /\ [](\A i, j \in DOMAIN stream :
            (i < j /\ stream[i].m > stream[j].m) => stream[j].m \in reinjected)
    /\ \A m \in Metrics :
            []((m \in Range(channel) /\ []reachable) => <>Written(m))

\* C4 witness: after an outage in which metrics queued up and one was sent back,
\* every metric has been written whole, the sent-back one out of order.
SenderRecoversWitness ==
    /\ reachable
    /\ channel = <<>>
    /\ metricval = <<>>
    /\ Len(accepted) = MaxMetrics
    /\ \A m \in Metrics : Written(m)
    /\ reinjected # {}
    /\ \E i, j \in DOMAIN stream : i < j /\ stream[i].m > stream[j].m

\* C5 as stated: of the metrics queued when m was sent back, at most one is
\* written to the socket before m.
ReinjectionShiftsOneSlot ==
    \A m \in Metrics :
        m \in Range(Pipeline) /\ PosIn(Pipeline, m) <= Len(stream) =>
            Cardinality({x \in behind[m] : PosIn(Pipeline, x) < PosIn(Pipeline, m)}) <= 1

\* C5 amended: m is sent back behind every metric queued at that moment, so each
\* of them (as many as the queue held) goes to the socket before m unless it is
\* itself sent back later; the others keep their order.
ReinjectionGoesLast ==
    \A m \in Metrics : \A x \in behind[m] :
        /\ m \in Range(Pipeline)
        /\ x \in Range(Pipeline)
        /\ PosIn(Pipeline, x) < PosIn(Pipeline, m)

\* C5 witness: two metrics were queued when m was sent back, and both were
\* written before m was.
ReinjectionGoesLastWitness ==
    \E m \in Metrics :
        /\ Cardinality(behind[m]) >= 2
        /\ m \in Range(Pipeline)
        /\ PosIn(Pipeline, m) <= Len(stream)

\* C32: every metric carbon_send takes for sent (the write returned no error
\* and the metric was not sent back) has its whole line, newline included, on
\* the stream: no truncated line is on the stream.
SentLinesComplete ==
    \A i \in DOMAIN stream : stream[i].complete

\* ------------------------------------------ collector.rs: join and workaround
Last(s) == s[Len(s)]

Min(S) == CHOOSE x \in S : \A y \in S : x <= y

RECURSIVE SortedSeq(_)
SortedSeq(S) == IF S = {} THEN <<>> ELSE <<Min(S)>> \o SortedSeq(S \ {Min(S)})

\* s restricted to the positions in P, in order.
Pick(s, P) == [i \in 1..Cardinality(P) |-> s[SortedSeq(P)[i]]]

Reverse(s) == [i \in DOMAIN s |-> s[Len(s) + 1 - i]]

\* The collect_map entry of the cycle: one instance column and its value columns.
collect_key == <<1>>

collect_map == [k \in {collect_key} |-> {<<2>>, <<3>>}]

VarBind(oid, value) == [oid |-> oid, value |-> value]

\* VarValue variants, with a payload.
VarString(i) == [kind |-> "String", n |-> i]
VarInt(i) == [kind |-> "Int", n |-> i]
VarCounter(i) == [kind |-> "Counter", n |-> i]
NoSuchInstance == [kind |-> "NoSuchInstance", n |-> 0]
BigCounter(i) == [kind |-> "BigCounter", n |-> i]

\* What a device may answer to the bulk-walk of the instance column: rows
\* collect_key.i in walk order, each a String (the row's name) or not.
NameWalks ==
    UNION {{[i \in 1..Cardinality(S) |->
                LET r == SortedSeq(S)[i]
                IN  VarBind(Append(collect_key, r),
                            IF k[r] THEN VarString(r) ELSE VarInt(r))]
            : k \in [S -> BOOLEAN]} : S \in SUBSET (1..MaxIndex)}

\* The rows a device may hold under value column c, in walk (lexicographic)
\* order: c.1, the two-index rows c.1.1 .. c.1.MaxIndex, then c.2 .. c.MaxIndex.
ValueRows(c) ==
    <<VarBind(c \o <<1>>, VarCounter(1))>>
    \o [j \in 1..MaxIndex |-> VarBind(c \o <<1, j>>, VarCounter(10 + j))]
    \o [i \in 1..(MaxIndex - 1) |-> VarBind(c \o <<i + 1>>, VarCounter(i + 1))]

ValueWalks(c) == {Pick(ValueRows(c), P) : P \in SUBSET DOMAIN ValueRows(c)}

\* What a device may answer to a GetRequest: per requested OID a counter or
\* NoSuchInstance; all bindings in order, the first one left out, the bindings
\* in reverse order, or no binding at all.
Responses(request) ==
    UNION {LET full == [i \in DOMAIN request |->
                           VarBind(request[i].oid,
                                   IF k[i] THEN VarCounter(7) ELSE NoSuchInstance)]
           IN  {full, Tail(full), Reverse(full), <<>>}
           : k \in [DOMAIN request -> BOOLEAN]}

\* stat_result.rs: SnmpStatResult {device, timestamp, key, value}; `via` records
\* which send of collect_device_ produced it.
SnmpStatResult(key, value, via) == [key |-> key, value |-> value, via |-> via]

\* A faulty variant: every instance value is taken for a String.
is_string_any(value) == TRUE

\* match name_bind.value() { VarValue::String(s) => .., _ => { error!; break } }
is_string(value) == value.kind = "String"

\* table_values.iter().find(|(_, val_bind)| last(val_bind) == name_index)
find_table_value(values, name_index) ==
    LET hits == {k \in DOMAIN values : Last(values[k].oid) = name_index}
    IN  IF hits = {} THEN <<>> ELSE <<values[Min(hits)]>>

\* for (_, name_bind) in &table_names { .. }: the readings sent and the name
\* binds pushed onto the missing list, from position i on.
RECURSIVE zip_tables(_, _, _)
zip_tables(names, values, i) ==
    IF i > Len(names) THEN [sent |-> <<>>, missing |-> <<>>]
    ELSE IF ~is_string(names[i].value) THEN [sent |-> <<>>, missing |-> <<>>]
    ELSE LET found == find_table_value(values, Last(names[i].oid))
             rest == zip_tables(names, values, i + 1)
         IN  IF found # <<>>
             THEN [rest EXCEPT !.sent = <<SnmpStatResult(names[i], found[1], "walk")>> \o @]
             ELSE [rest EXCEPT !.missing = <<names[i]>> \o @]

\* A faulty variant: only the first missing row is requested.
workaround_request_first(missing, values) ==
    IF values = <<>> \/ missing = <<>> THEN <<>>
    ELSE LET first == values[1].oid
         IN  <<VarBind([first EXCEPT ![Len(first)] = Last(missing[1].oid)], <<>>)>>

\* build request var_binds: the OID of table_values.first() with its last
\* component replaced by the missing row's; nothing when table_values is empty.
workaround_request(missing, values) ==
    IF values = <<>> THEN <<>>
    ELSE [i \in DOMAIN missing |->
            LET first == values[1].oid
            IN  VarBind([first EXCEPT ![Len(first)] = Last(missing[i].oid)], <<>>)]

\* A faulty variant: NoSuchInstance is passed on as it came.
assume_zero_never(table_bind) == table_bind

\* if table_bind.value() == &VarValue::NoSuchInstance { set_value(BigCounter(0)) }
assume_zero(table_bind) ==
    IF table_bind.value = NoSuchInstance
    THEN [table_bind EXCEPT !.value = BigCounter(0)]
    ELSE table_bind

\* A faulty variant: the workaround readings are sent last row first.
workaround_readings_reverse(missing, data) ==
    LET n == IF Len(missing) < Len(data) THEN Len(missing) ELSE Len(data)
    IN  [i \in 1..n |-> SnmpStatResult(missing[n + 1 - i], assume_zero(data[n + 1 - i]), "get")]

\* for (name_bind, (_, table_bind)) in missing.iter().zip(data.iter()) { send }
workaround_readings(missing, data) ==
    LET n == IF Len(missing) < Len(data) THEN Len(missing) ELSE Len(data)
    IN  [i \in 1..n |-> SnmpStatResult(missing[i], assume_zero(data[i]), "get")]

CollectInit ==
    /\ collect_pc = "names"
    /\ collect_values = {}
    /\ collect_value = <<>>
    /\ table_names = <<>>
    /\ table_values = <<>>
    /\ hpe_comware_workaround_var_binds = <<>>
    /\ get_request = <<>>
    /\ hpe_comware_snmp_data = <<>>
    /\ snmp_chan = <<>>
    /\ SenderIdle
    /\ WalkIdle
    /\ DeviceIdle
    /\ CycleIdle
    /\ FormatIdle
    /\ SanitizeIdle
    /\ KeyIdle
    /\ ResolveIdle
    /\ StartIdle
    /\ ConfigIdle

\* let table_names = snmp_fetch_table(vec![collect_key.clone()], ..)?;
fetch_table_names ==
    /\ collect_pc = "names"
    /\ \/ /\ table_names' \in NameWalks
          /\ collect_values' = collect_map[collect_key]
          /\ collect_pc' = "values"
       \/ /\ collect_pc' = "error"
          /\ UNCHANGED <<table_names, collect_values>>
    /\ UNCHANGED <<collect_value, table_values, hpe_comware_workaround_var_binds,
                   get_request, hpe_comware_snmp_data, snmp_chan>>
    /\ UNCHANGED <<senderVars, walkVars, deviceVars, cycleVars, formatVars, sanitizeVars, keyVars, resolveVars, startVars, configVars>>

\* for collect_value in collect_values {   (a HashSet: any order)
next_collect_value ==
    /\ collect_pc = "values"
    /\ \E c \in collect_values :
          /\ collect_value' = c
          /\ collect_values' = collect_values \ {c}
    /\ collect_pc' = "fetch"
    /\ table_values' = <<>>
    /\ snmp_chan' = <<>>
    /\ get_request' = <<>>
    /\ hpe_comware_snmp_data' = <<>>
    /\ UNCHANGED <<table_names, hpe_comware_workaround_var_binds>>
    /\ UNCHANGED <<senderVars, walkVars, deviceVars, cycleVars, formatVars, sanitizeVars, keyVars, resolveVars, startVars, configVars>>

\* let table_values = snmp_fetch_table(vec![collect_value.clone()], ..)?;
fetch_table_values ==
    /\ collect_pc = "fetch"
    /\ \/ /\ table_values' \in ValueWalks(collect_value)
          /\ collect_pc' = "join"
       \/ /\ collect_pc' = "error"
          /\ UNCHANGED table_values
    /\ UNCHANGED <<collect_values, collect_value, table_names,
                   hpe_comware_workaround_var_binds, get_request,
                   hpe_comware_snmp_data, snmp_chan>>
    /\ UNCHANGED <<senderVars, walkVars, deviceVars, cycleVars, formatVars, sanitizeVars, keyVars, resolveVars, startVars, configVars>>

\* A faulty variant: every name bind is pushed onto the missing list, the
\* matched ones too.
join_tables_push_all ==
    /\ collect_pc = "join"
    /\ LET z == zip_tables(table_names, table_values, 1)
       IN  /\ snmp_chan' = snmp_chan \o z.sent
           /\ hpe_comware_workaround_var_binds' =
                  hpe_comware_workaround_var_binds
                  \o SelectSeq(table_names, LAMBDA b : is_string(b.value))
    /\ collect_pc' = "workaround"
    /\ UNCHANGED <<collect_values, collect_value, table_names, table_values,
                   get_request, hpe_comware_snmp_data>>
    /\ UNCHANGED <<senderVars, walkVars, deviceVars, cycleVars, formatVars, sanitizeVars, keyVars, resolveVars, startVars, configVars>>

\* zip key value tuples from the name and value tables (the for loop)
join_tables ==
    /\ collect_pc = "join"
    /\ LET z == zip_tables(table_names, table_values, 1)
       IN  /\ snmp_chan' = snmp_chan \o z.sent
           /\ hpe_comware_workaround_var_binds' =
                  hpe_comware_workaround_var_binds \o z.missing
    /\ collect_pc' = "workaround"
    /\ UNCHANGED <<collect_values, collect_value, table_names, table_values,
                   get_request, hpe_comware_snmp_data>>
    /\ UNCHANGED <<senderVars, walkVars, deviceVars, cycleVars, formatVars, sanitizeVars, keyVars, resolveVars, startVars, configVars>>

\* HPE comware workaround -> request missing oids with a GetRequest
hpe_comware_workaround ==
    /\ collect_pc = "workaround"
    /\ LET request == workaround_request(hpe_comware_workaround_var_binds, table_values)
       IN  IF hpe_comware_workaround_var_binds = <<>> \/ request = <<>>
           THEN /\ hpe_comware_workaround_var_binds' = <<>>
                /\ collect_pc' = "values"
                /\ UNCHANGED <<get_request, hpe_comware_snmp_data, snmp_chan>>
           ELSE /\ get_request' = request
                /\ \/ \E data \in Responses(request) :
                         /\ hpe_comware_snmp_data' = data
                         /\ snmp_chan' = snmp_chan \o
                                workaround_readings(hpe_comware_workaround_var_binds, data)
                         /\ hpe_comware_workaround_var_binds' = <<>>
                         /\ collect_pc' = "values"
                   \/ /\ collect_pc' = "error"
                      /\ UNCHANGED <<hpe_comware_snmp_data, snmp_chan,
                                     hpe_comware_workaround_var_binds>>
    /\ UNCHANGED <<collect_values, collect_value, table_names, table_values>>
    /\ UNCHANGED <<senderVars, walkVars, deviceVars, cycleVars, formatVars, sanitizeVars, keyVars, resolveVars, startVars, configVars>>

\* end of the cycle: sleep until the next interval, then loop
collect_next_cycle ==
    /\ collect_pc = "values"
    /\ collect_values = {}
    /\ collect_pc' = "names"
    /\ collect_value' = <<>>
    /\ table_names' = <<>>
    /\ table_values' = <<>>
    /\ hpe_comware_workaround_var_binds' = <<>>
    /\ get_request' = <<>>
    /\ hpe_comware_snmp_data' = <<>>
    /\ snmp_chan' = <<>>
    /\ UNCHANGED collect_values
    /\ UNCHANGED <<senderVars, walkVars, deviceVars, cycleVars, formatVars, sanitizeVars, keyVars, resolveVars, startVars, configVars>>

\* collect_device_safe: the error is logged, backoff, collect_device is called again
collect_device_safe ==
    /\ collect_pc = "error"
    /\ collect_pc' = "names"
    /\ collect_values' = {}
    /\ collect_value' = <<>>
    /\ table_names' = <<>>
    /\ table_values' = <<>>
    /\ hpe_comware_workaround_var_binds' = <<>>
    /\ get_request' = <<>>
    /\ hpe_comware_snmp_data' = <<>>
    /\ snmp_chan' = <<>>
    /\ UNCHANGED <<senderVars, walkVars, deviceVars, cycleVars, formatVars, sanitizeVars, keyVars, resolveVars, startVars, configVars>>

CollectNext ==
    \/ fetch_table_names
    \/ next_collect_value
    \/ fetch_table_values
    \/ join_tables
    \/ hpe_comware_workaround
    \/ collect_next_cycle
    \/ collect_device_safe

CollectSpec == CollectInit /\ [][CollectNext]_vars

\* ---------------------------------------------------------- collector claims
WalkReadings == SelectSeq(snmp_chan, LAMBDA r : r.via = "walk")

GetReadings == SelectSeq(snmp_chan, LAMBDA r : r.via = "get")

\* C6: every reading sent for value column collect_value joins a key and a value
\* with the same last OID component, and its value is a binding of the
\* bulk-walk of that column, or has the OID collect_value ++ [last of the key]
\* and is a binding the workaround GetRequest returned.
JoinCorrectness ==
    \A r \in Range(snmp_chan) :
        /\ Last(r.key.oid) = Last(r.value.oid)
        /\ \/ r.via = "walk" /\ r.value \in Range(table_values)
           \/ /\ r.via = "get"
              /\ r.value.oid = Append(collect_value, Last(r.key.oid))
              /\ r.value.oid \in {b.oid : b \in Range(hpe_comware_snmp_data)}

\* C7: the i-th reading sent through the workaround carries BigCounter(0) when
\* the i-th binding of the GetRequest's response had the value NoSuchInstance
\* (and the binding as it came otherwise).
FallbackZeroRewrite ==
    /\ Len(GetReadings) <= Len(hpe_comware_snmp_data)
    /\ \A i \in DOMAIN GetReadings :
          /\ GetReadings[i].value.oid = hpe_comware_snmp_data[i].oid
          /\ hpe_comware_snmp_data[i].value = NoSuchInstance
                => GetReadings[i].value.value = BigCounter(0)
          /\ hpe_comware_snmp_data[i].value # NoSuchInstance
                => GetReadings[i].value = hpe_comware_snmp_data[i]

\* C7 witness: the response held NoSuchInstance for a row and a counter for
\* another, and both readings were sent.
FallbackZeroRewriteWitness ==
    /\ Len(GetReadings) >= 2
    /\ \E i \in DOMAIN GetReadings :
          /\ hpe_comware_snmp_data[i].value = NoSuchInstance
          /\ GetReadings[i].value.value = BigCounter(0)
    /\ \E i \in DOMAIN GetReadings : hpe_comware_snmp_data[i].value = VarCounter(7)

\* C8: every reading sent, by the join or by the workaround, has a key whose
\* value is a String.
KeyIsString ==
    \A r \in Range(snmp_chan) : r.key.value.kind = "String"

\* C8 witness: the instance walk mixed String and non-String bindings, and
\* readings were sent by the join and by the workaround.
KeyIsStringWitness ==
    /\ \E i \in DOMAIN table_names : table_names[i].value.kind # "String"
    /\ \E i \in DOMAIN table_names : table_names[i].value.kind = "String"
    /\ WalkReadings # <<>>
    /\ GetReadings # <<>>

\* The position of a key binding in the instance-column walk.
NamePos(key) == CHOOSE i \in DOMAIN table_names : table_names[i] = key

InWalkOrder(s) ==
    \A i, j \in DOMAIN s : i < j => NamePos(s[i].key) < NamePos(s[j].key)

\* The readings on the channel belong to the entry being collected.
OfCurrentEntry ==
    \A r \in Range(snmp_chan) :
        /\ r.key \in Range(table_names)
        /\ Len(r.value.oid) > Len(collect_value)
        /\ SubSeq(r.value.oid, 1, Len(collect_value)) = collect_value

\* C14 as stated: the readings of an (instance, value column) entry are sent in
\* the order of the instance-column walk, those that come from the workaround
\* GetRequest included.
EmissionInWalkOrder ==
    OfCurrentEntry /\ InWalkOrder(snmp_chan)

\* C14 amended: the readings of an entry are sent while that entry is collected:
\* first the rows found in the value walk, in the order of the instance-column
\* walk, then the rows fetched by the workaround GetRequest, in that order too.
EmissionWalkThenWorkaround ==
    /\ OfCurrentEntry
    /\ snmp_chan = WalkReadings \o GetReadings
    /\ InWalkOrder(WalkReadings)
    /\ InWalkOrder(GetReadings)

\* C14 witness: a row fetched by the workaround was sent after a row that
\* follows it in the instance-column walk.
EmissionWalkThenWorkaroundWitness ==
    /\ collect_pc = "values"
    /\ Len(GetReadings) >= 2
    /\ \E i, j \in DOMAIN snmp_chan :
          /\ i < j
          /\ snmp_chan[i].via = "walk"
          /\ snmp_chan[j].via = "get"
          /\ NamePos(snmp_chan[j].key) < NamePos(snmp_chan[i].key)

\* Rows of the instance-column walk that are not a String.
NonStringNames == {i \in DOMAIN table_names : ~is_string(table_names[i].value)}

\* C16: once the instance walk holds a binding that is not a String, no value
\* column of that instance column is walked, no GetRequest is made and no
\* reading is sent for it in this cycle, and the collector returns no error.
NonStringAbandonsColumn ==
    NonStringNames # {} =>
        /\ collect_pc \notin {"join", "workaround"}
        /\ table_values = <<>>
        /\ get_request = <<>>
        /\ snmp_chan = <<>>

\* The missing list holds, in walk order, name binds of this instance walk that
\* no binding of the value walk of this column matches.
MissingFromOwnWalk ==
    /\ \A i, j \in DOMAIN hpe_comware_workaround_var_binds :
          i < j => NamePos(hpe_comware_workaround_var_binds[i])
                       < NamePos(hpe_comware_workaround_var_binds[j])
    /\ \A i \in DOMAIN hpe_comware_workaround_var_binds :
          /\ hpe_comware_workaround_var_binds[i] \in Range(table_names)
          /\ find_table_value(table_values,
                              Last(hpe_comware_workaround_var_binds[i].oid)) = <<>>

\* The request carries one OID per missing row, in the order of the missing
\* list: the OID of the first walked value with the row's last component.
OneOidPerMissingRow(request, missing) ==
    /\ Len(request) = Len(missing)
    /\ \A i \in DOMAIN request :
          /\ Len(request[i].oid) = Len(table_values[1].oid)
          /\ Last(request[i].oid) = Last(missing[i].oid)
          /\ \A k \in 1..(Len(request[i].oid) - 1) :
                request[i].oid[k] = table_values[1].oid[k]

\* C28: the workaround of a value column makes a GetRequest exactly when the
\* missing list and the value walk are both non-empty, one request with one
\* reconstructed OID per missing row in the order of the list; the list holds
\* only rows missing from the walk of that column, and is empty whenever the
\* next value column is taken, walked or joined.
WorkaroundRequestShape ==
    /\ [](collect_pc = "workaround" => MissingFromOwnWalk)
    /\ [](collect_pc \in {"values", "fetch", "join"}
             => hpe_comware_workaround_var_binds = <<>>)
    /\ [][collect_pc = "workaround" =>
             /\ get_request = <<>>
             /\ get_request' # <<>> <=>
                   /\ hpe_comware_workaround_var_binds # <<>>
                   /\ table_values # <<>>
             /\ get_request' # <<>> =>
                   OneOidPerMissingRow(get_request', hpe_comware_workaround_var_binds)]_vars

\* C28 witness: the workaround of the second value column requested two
\* missing rows in one GetRequest, and the missing list is empty again.
WorkaroundRequestShapeWitness ==
    /\ collect_pc = "values"
    /\ collect_values = {}
    /\ Len(get_request) >= 2
    /\ Len(table_values) >= 1
    /\ hpe_comware_workaround_var_binds = <<>>

\* The readings sent for name bind b in this value column
ReadingsOf(b) == {i \in DOMAIN snmp_chan : snmp_chan[i].key = b}

\* C30: for one value column, every binding of the instance walk gets at most
\* one reading; a row whose reading carries a value of the bulk-walk is not on
\* the missing list, not requested by the workaround and not sent by it, and a
\* row on the missing list or sent by the workaround has no match in the walk.
AtMostOneReadingPerRow ==
    /\ \A b \in Range(table_names) : Cardinality(ReadingsOf(b)) <= 1
    /\ \A i \in DOMAIN snmp_chan :
          snmp_chan[i].value \in Range(table_values) =>
              /\ snmp_chan[i].key \notin Range(hpe_comware_workaround_var_binds)
              /\ \A k \in DOMAIN get_request :
                    /\ Last(get_request[k].oid) # Last(snmp_chan[i].key.oid)
                    /\ get_request[k].oid # snmp_chan[i].value.oid
              /\ \A k \in DOMAIN snmp_chan :
                    snmp_chan[k].key = snmp_chan[i].key => k = i
    /\ \A m \in Range(hpe_comware_workaround_var_binds) :
          /\ find_table_value(table_values, Last(m.oid)) = <<>>
          /\ ReadingsOf(m) = {}
    /\ \A i \in DOMAIN snmp_chan :
          find_table_value(table_values, Last(snmp_chan[i].key.oid)) = <<>> =>
              snmp_chan[i].value \notin Range(table_values)

\* C30 witness: of three rows of the instance walk, one was sent with its
\* value of the bulk-walk and two through the workaround.
AtMostOneReadingPerRowWitness ==
    /\ collect_pc = "values"
    /\ Len(table_names) = 3
    /\ Len(WalkReadings) = 1
    /\ Len(GetReadings) = 2
    /\ \A b \in Range(table_names) : Cardinality(ReadingsOf(b)) = 1

\* ------------------------------------------------------ snmp.rs: snmp_bulkwalk
\* ObjectIdent ordering: lexicographic on the sub-identifiers.
OidLess(a, b) ==
    \E k \in 1..(Len(a) + 1) :
        /\ k <= Len(b)
        /\ \A i \in 1..(k - 1) : a[i] = b[i]
        /\ (k = Len(a) + 1 \/ a[k] < b[k])

\* msnmp::request::next_sibling: the last sub-identifier incremented by one.
next_sibling(oid) == [oid EXCEPT ![Len(oid)] = @ + 1]

\* The OID the walk is called with, and where it ends.
walk_oid == <<1, 2>>

end_oid == next_sibling(walk_oid)

EndOfMibView == [kind |-> "EndOfMibView", n |-> 0]

\* The bindings a device may put in a GetBulk response: below, inside, at the
\* end of and beyond the walked subtree, and an endOfMibView marker.
WalkBinds ==
    {VarBind(<<1, 1, 5>>, VarCounter(5)),
     VarBind(<<1, 2, 1>>, VarCounter(1)),
     VarBind(<<1, 2, 2>>, VarCounter(2)),
     VarBind(<<1, 2, 2>>, EndOfMibView),
     VarBind(<<1, 3>>, VarCounter(3)),
     VarBind(<<2>>, VarCounter(4))}

RECURSIVE SeqsUpTo(_, _)
SeqsUpTo(S, n) ==
    IF n = 0 THEN {<<>>}
    ELSE LET shorter == SeqsUpTo(S, n - 1)
         IN  shorter \cup {Append(q, x) : q \in shorter, x \in S}

\* get_var_binds(&response): None, or Some(binds) with any number of bindings.
BulkResponses ==
    {[kind |-> "none", binds |-> <<>>]}
    \cup {[kind |-> "some", binds |-> b] : b \in SeqsUpTo(WalkBinds, MaxRepetitions)}

\* A faulty variant: a binding at end_oid itself does not end the walk.
walk_ends_strict(var_bind) ==
    OidLess(end_oid, var_bind.oid) \/ var_bind.value = EndOfMibView

\* if var_bind.name() >= end_oid || var_bind.value() == &VarValue::EndOfMibView
walk_ends(var_bind) ==
    ~OidLess(var_bind.oid, end_oid) \/ var_bind.value = EndOfMibView

\* for var_bind in binds { if .. { return Ok(result); } result.push(..) }:
\* the bindings pushed from position i on, and whether the loop returned.
RECURSIVE push_binds(_, _)
push_binds(binds, i) ==
    IF i > Len(binds) THEN [pushed |-> <<>>, returned |-> FALSE]
    ELSE IF walk_ends(binds[i]) THEN [pushed |-> <<>>, returned |-> TRUE]
    ELSE LET rest == push_binds(binds, i + 1)
         IN  [rest EXCEPT !.pushed = <<binds[i]>> \o @]

WalkInit ==
    /\ walk_pc = "request"
    /\ request_var_binds = walk_oid
    /\ result = <<>>
    /\ received = <<>>
    /\ response = [kind |-> "pending", binds |-> <<>>]
    /\ requests = 0
    /\ SenderIdle
    /\ CollectIdle
    /\ DeviceIdle
    /\ CycleIdle
    /\ FormatIdle
    /\ SanitizeIdle
    /\ KeyIdle
    /\ ResolveIdle
    /\ StartIdle
    /\ ConfigIdle

\* one turn of the loop: create_bulk_request_msg, client.send_request(..)?,
\* match get_var_binds(&get_next_response) { Some(binds) => .., None => return }
snmp_bulkwalk ==
    /\ walk_pc = "request"
    /\ requests < MaxRequests
    /\ requests' = requests + 1
    /\ \/ /\ response' = [kind |-> "err", binds |-> <<>>]
          /\ walk_pc' = "error"
          /\ UNCHANGED <<request_var_binds, result, received>>
       \/ \E r \in BulkResponses :
             /\ response' = r
             /\ received' = received \o r.binds
             /\ IF r.kind = "none"
                THEN /\ walk_pc' = "returned"
                     /\ UNCHANGED <<request_var_binds, result>>
                ELSE LET p == push_binds(r.binds, 1)
                     IN  /\ result' = result \o p.pushed
                         /\ IF p.returned
                            THEN /\ walk_pc' = "returned"
                                 /\ UNCHANGED request_var_binds
                            ELSE IF r.binds = <<>>
                            THEN \* binds.last().unwrap() on an empty slice
                                 /\ walk_pc' = "panic"
                                 /\ UNCHANGED request_var_binds
                            ELSE /\ walk_pc' = "request"
                                 /\ request_var_binds' = Last(r.binds).oid
    /\ UNCHANGED <<senderVars, collectVars, deviceVars, cycleVars, formatVars, sanitizeVars, keyVars, resolveVars, startVars, configVars>>

\* collector.rs: snmp_fetch_table(..) is called again (next column, next cycle,
\* or after the supervisor's backoff).
snmp_fetch_table ==
    /\ walk_pc \in {"returned", "error"}
    /\ walk_pc' = "request"
    /\ request_var_binds' = walk_oid
    /\ result' = <<>>
    /\ received' = <<>>
    /\ response' = [kind |-> "pending", binds |-> <<>>]
    /\ requests' = 0
    /\ UNCHANGED <<senderVars, collectVars, deviceVars, cycleVars, formatVars, sanitizeVars, keyVars, resolveVars, startVars, configVars>>

WalkNext ==
    \/ snmp_bulkwalk
    \/ snmp_fetch_table

WalkSpec == WalkInit /\ [][WalkNext]_vars

\* --------------------------------------------------------- bulk-walk claims
\* A binding that ends the walk: its OID is not below next_sibling(start), or
\* its value is endOfMibView.
Trigger(b) ==
    \/ b.oid = next_sibling(walk_oid)
    \/ OidLess(next_sibling(walk_oid), b.oid)
    \/ b.value.kind = "EndOfMibView"

\* The bindings of s before the first one that ends the walk.
BeforeFirstTrigger(s) ==
    LET T == {i \in DOMAIN s : Trigger(s[i])}
    IN  IF T = {} THEN s ELSE SubSeq(s, 1, Min(T) - 1)

\* C9: the result of snmp_bulkwalk is, in response order, exactly the bindings
\* received before the first one that ends the walk; it holds no binding at or
\* beyond next_sibling(start) and no endOfMibView.
BulkWalkResult ==
    /\ result = BeforeFirstTrigger(received)
    /\ \A i \in DOMAIN result : ~Trigger(result[i])

\* C9 witness: the walk returned after two responses, with bindings of both in
\* its result and the bindings from the first trigger on left out.
BulkWalkResultWitness ==
    /\ walk_pc = "returned"
    /\ requests = 2
    /\ Len(result) >= 2
    /\ Len(received) > Len(result)
    /\ Trigger(received[Len(result) + 1])
    /\ received[Len(received)].oid = <<1, 3>>

\* C10: after a GetBulk response without bindings (no binding list, or an empty
\* one) snmp_bulkwalk has returned normally, with the result accumulated so far.
EmptyResponseReturns ==
    (response.kind \in {"none", "some"} /\ response.binds = <<>>)
        => (walk_pc = "returned" /\ result = BeforeFirstTrigger(received))

\* C31: the walk terminates whatever the device answers: a response that
\* does not end the walk is followed by a request for an OID beyond the one
\* requested before, so the requests of one walk cannot repeat or go back.
WalkAdvances ==
    [][(walk_pc = "request" /\ walk_pc' = "request")
          => OidLess(request_var_binds, request_var_binds')]_vars

\* ------------------------------- collector.rs: supervisor, session, pacing
\* device.interval is a u16 of the configuration; nothing at startup rejects 0.
Intervals == 0..MaxInterval

\* The clock stops counting where no comparison of the program can tell.
TimeCap == MaxInterval + MaxWalks * MaxLatency + MaxOversleep

\* The reading of start_time.elapsed() after dt more ticks.
Tick(t, dt) == IF t = -1 THEN -1 ELSE IF t + dt > TimeCap THEN TimeCap ELSE t + dt

\* collect_device_safe: let backoff = interval / 3;
backoff == interval \div 3

DeviceInit ==
    /\ dev_pc = "startup"
    /\ interval \in Intervals
    /\ session = "none"
    /\ todo = 0
    /\ clock = -1
    /\ snmp_duration = 0
    /\ wait = 0
    /\ slept = 0
    /\ startup_delays = <<>>
    /\ SenderIdle
    /\ CollectIdle
    /\ WalkIdle
    /\ CycleIdle
    /\ FormatIdle
    /\ SanitizeIdle
    /\ KeyIdle
    /\ ResolveIdle
    /\ StartIdle
    /\ ConfigIdle

\* collect_device_safe: startup_delay = gen_range(0..interval.as_secs()), which
\* panics on the empty range; thread::sleep(startup_delay).
startup_delay ==
    /\ dev_pc = "startup"
    /\ IF interval = 0
       THEN /\ dev_pc' = "panic"
            /\ UNCHANGED startup_delays
       ELSE \E delay \in 0..(interval - 1) :
               /\ startup_delays' = Append(startup_delays, delay)
               /\ dev_pc' = "call"
    /\ UNCHANGED <<interval, session, todo, clock, snmp_duration, wait, slept>>
    /\ UNCHANGED <<senderVars, collectVars, walkVars, cycleVars, formatVars, sanitizeVars, keyVars, resolveVars, startVars, configVars>>

\* collect_device_: Client::new(host, Some(timeout))?; Session::new(&mut client, ..)?;
\* the keys are localized with the engine id the new session discovered.
collect_device ==
    /\ dev_pc = "call"
    /\ \E dt \in 0..MaxLatency, ok \in BOOLEAN :
          /\ clock' = Tick(clock, dt)
          /\ IF ok
             THEN /\ session' = "live"
                  /\ dev_pc' = "cycle"
                  /\ UNCHANGED slept
             ELSE /\ session' = "failed"
                  /\ dev_pc' = "returned"
                  /\ slept' = 0
    /\ UNCHANGED <<startup_delays, interval, todo, snmp_duration, wait>>
    /\ UNCHANGED <<senderVars, collectVars, walkVars, cycleVars, formatVars, sanitizeVars, keyVars, resolveVars, startVars, configVars>>

\* collect_device_: loop { let start_time = Instant::now(); for .. in &collect_map
cycle_start ==
    /\ dev_pc = "cycle"
    /\ clock' = 0
    /\ todo' = MaxWalks
    /\ dev_pc' = IF MaxWalks = 0 THEN "pace" ELSE "request"
    /\ UNCHANGED <<startup_delays, interval, session, snmp_duration, wait, slept>>
    /\ UNCHANGED <<senderVars, collectVars, walkVars, cycleVars, formatVars, sanitizeVars, keyVars, resolveVars, startVars, configVars>>

\* A faulty variant: an error of the exchange is logged and the cycle goes on.
snmp_request_continue ==
    /\ dev_pc = "request"
    /\ \E dt \in 0..MaxLatency, outcome \in {"ok", "error", "panic"} :
          /\ clock' = Tick(clock, dt)
          /\ IF outcome = "panic"
             THEN /\ dev_pc' = "panic"
                  /\ UNCHANGED <<session, todo, snmp_duration, slept>>
             ELSE /\ todo' = todo - 1
                  /\ dev_pc' = IF todo' = 0 THEN "pace" ELSE "request"
                  /\ session' = IF outcome = "error" THEN "failed" ELSE session
                  /\ UNCHANGED <<snmp_duration, slept>>
    /\ UNCHANGED <<startup_delays, interval, wait>>
    /\ UNCHANGED <<senderVars, collectVars, walkVars, cycleVars, formatVars, sanitizeVars, keyVars, resolveVars, startVars, configVars>>

\* collect_device_: snmp_fetch_table(..)? and snmp_fetch_var_binds(..)?: one
\* exchange on the session; an error returns from collect_device_, an empty
\* GetBulk response panics in snmp_bulkwalk (binds.last().unwrap()).
snmp_request ==
    /\ dev_pc = "request"
    /\ \E dt \in 0..MaxLatency, outcome \in {"ok", "error", "panic"} :
          /\ clock' = Tick(clock, dt)
          /\ CASE outcome = "ok" ->
                    /\ todo' = todo - 1
                    /\ dev_pc' = IF todo' = 0 THEN "pace" ELSE "request"
                    /\ UNCHANGED <<session, snmp_duration, slept>>
               [] outcome = "error" ->
                    /\ session' = "failed"
                    /\ dev_pc' = "returned"
                    /\ snmp_duration' = clock'
                    /\ slept' = 0
                    /\ UNCHANGED todo
               [] outcome = "panic" ->
                    /\ dev_pc' = "panic"
                    /\ UNCHANGED <<session, todo, snmp_duration, slept>>
    /\ UNCHANGED <<startup_delays, interval, wait>>
    /\ UNCHANGED <<senderVars, collectVars, walkVars, cycleVars, formatVars, sanitizeVars, keyVars, resolveVars, startVars, configVars>>

\* A faulty variant: the next cycle starts at once whatever the cycle took.
cycle_pace_nosleep ==
    /\ dev_pc = "pace"
    /\ snmp_duration' = clock
    /\ wait' = 0
    /\ dev_pc' = "cycle"
    /\ UNCHANGED <<startup_delays, interval, session, todo, clock, slept>>
    /\ UNCHANGED <<senderVars, collectVars, walkVars, cycleVars, formatVars, sanitizeVars, keyVars, resolveVars, startVars, configVars>>

\* collect_device_: let snmp_duration = start_time.elapsed();
\* if snmp_duration < interval { let wait = interval - snmp_duration; .. } else { warn! }
cycle_pace ==
    /\ dev_pc = "pace"
    /\ snmp_duration' = clock
    /\ IF clock < interval
       THEN /\ wait' = interval - clock
            /\ dev_pc' = "sleep"
       ELSE /\ wait' = 0
            /\ dev_pc' = "cycle"
    /\ UNCHANGED <<startup_delays, interval, session, todo, clock, slept>>
    /\ UNCHANGED <<senderVars, collectVars, walkVars, cycleVars, formatVars, sanitizeVars, keyVars, resolveVars, startVars, configVars>>

\* collect_device_: thread::sleep(wait);
cycle_sleep ==
    /\ dev_pc = "sleep"
    /\ \E over \in 0..MaxOversleep : clock' = Tick(clock, wait + over)
    /\ dev_pc' = "cycle"
    /\ UNCHANGED <<startup_delays, interval, session, todo, snmp_duration, wait, slept>>
    /\ UNCHANGED <<senderVars, collectVars, walkVars, cycleVars, formatVars, sanitizeVars, keyVars, resolveVars, startVars, configVars>>

\* collect_device_safe: if let Err(error) = &collect { warn!; thread::sleep(backoff); info! }
\* and the loop calls collect_device again. collect_device_ has no path that
\* returns Ok: its polling loop ends with an error or not at all.
collect_device_safe_loop ==
    /\ dev_pc = "returned"
    /\ \E over \in 0..MaxOversleep :
          /\ slept' = backoff + over
          /\ clock' = Tick(clock, backoff + over)
    /\ dev_pc' = "call"
    /\ UNCHANGED <<startup_delays, interval, session, todo, snmp_duration, wait>>
    /\ UNCHANGED <<senderVars, collectVars, walkVars, cycleVars, formatVars, sanitizeVars, keyVars, resolveVars, startVars, configVars>>

DeviceNext ==
    \/ startup_delay
    \/ collect_device
    \/ cycle_start
    \/ snmp_request
    \/ cycle_pace
    \/ cycle_sleep
    \/ collect_device_safe_loop

DeviceSpec == DeviceInit /\ [][DeviceNext]_vars

\* ------------------------------------------------------------ device claims
\* C11: a cycle start that follows another comes at least min(interval, d) after
\* it, d being the duration of the cycle before; a cycle shorter than the
\* interval is followed by a sleep of interval - d, a cycle of at least the
\* interval by the next cycle at once; and every start begins exactly one cycle.
IntervalPacing ==
    /\ []((dev_pc = "cycle" /\ clock # -1) => clock >= Min({interval, snmp_duration}))
    /\ [][(dev_pc = "pace" /\ dev_pc' # "pace")
            => /\ snmp_duration' = clock
               /\ clock' = clock
               /\ IF clock < interval
                  THEN dev_pc' = "sleep" /\ wait' = interval - clock
                  ELSE dev_pc' = "cycle"]_vars
    /\ [][(dev_pc = "sleep" /\ dev_pc' # "sleep")
            => (dev_pc' = "cycle" /\ clock' >= clock + wait /\ clock' >= interval)]_vars
    /\ [][(dev_pc = "cycle" /\ dev_pc' # "cycle")
            => (clock' = 0 /\ todo' = MaxWalks /\ dev_pc' \in {"request", "pace"})]_vars

\* C11 witness: a cycle shorter than the interval has ended, the collector slept
\* interval - d, and the next cycle is about to start.
IntervalPacingWitness ==
    /\ dev_pc = "cycle"
    /\ session = "live"
    /\ snmp_duration > 0
    /\ snmp_duration < interval
    /\ wait = interval - snmp_duration
    /\ clock >= interval

\* C12: the supervisor never exits: whatever the collector does, the supervisor
\* is still running, and after an error it calls the collector again only after
\* it slept interval / 3.
SupervisorNeverExits ==
    /\ dev_pc # "panic"
    /\ (dev_pc = "call" /\ session = "failed") => slept >= backoff

\* C29: for every interval, once the supervisor has left its startup it has
\* slept exactly one startup delay d with 0 <= d < interval; no client, session
\* or request exists before that; and no later restart of the collector sleeps
\* a startup delay again.
StartupJitter ==
    /\ [](dev_pc # "startup" =>
             /\ Len(startup_delays) = 1
             /\ 0 <= startup_delays[1]
             /\ startup_delays[1] < interval)
    /\ [](dev_pc = "startup" =>
             /\ startup_delays = <<>>
             /\ session = "none"
             /\ clock = -1)
    /\ [][startup_delays' # startup_delays => dev_pc = "startup"]_vars

\* C13: after an SNMP exchange returned an error no further exchange is made on
\* that session: the error is returned to the supervisor, and the next exchange
\* is made after the backoff of interval / 3, by a new client and session.
SessionSingleUse ==
    /\ [](dev_pc \in {"request", "cycle", "pace", "sleep"} => session = "live")
    /\ [](session = "failed" => dev_pc \in {"returned", "call"})
    /\ []((dev_pc = "call" /\ session = "failed") => slept >= backoff)
    /\ [][(session' = "failed" /\ session # "failed")
            => (dev_pc \in {"call", "request"} /\ dev_pc' = "returned")]_vars
    /\ [][(session = "failed" /\ dev_pc' # dev_pc)
            => \/ dev_pc = "returned" /\ dev_pc' = "call" /\ session' = "failed"
               \/ dev_pc = "call" /\ dev_pc' = "cycle" /\ session' = "live"
               \/ dev_pc = "call" /\ dev_pc' = "returned" /\ session' = "failed"]_vars

\* C13 witness: a bulk-walk failed in a cycle, the supervisor slept its backoff,
\* and a new session is polling.
SessionSingleUseWitness ==
    /\ dev_pc = "request"
    /\ session = "live"
    /\ backoff > 0
    /\ slept >= backoff
    /\ snmp_duration > 0
    /\ wait = 0

\* ---------------------------- collector.rs: collect_map and its bulk-walks
\* config.data with the OIDs oid_var_bind_map gives the names: two entries that
\* share an instance column, one that lists a value twice, and an entry with
\* another instance column and a value column the first one has too.
config_data ==
    [ifA |-> [instance |-> <<1>>, values |-> <<<<2>>, <<3>>>>],
     ifB |-> [instance |-> <<1>>, values |-> <<<<3>>, <<3>>>>],
     sys |-> [instance |-> <<4>>, values |-> <<<<2>>>>]]

\* The collect lists a device may be configured with: names of config.data, in
\* any order, with repetitions.
DeviceCollects == SeqsUpTo(DOMAIN config_data, MaxCollect)

\* A faulty variant: the entry of an instance column is replaced, not extended.
RECURSIVE build_collect_map_replace(_, _)
build_collect_map_replace(collect, map) ==
    IF collect = <<>> THEN map
    ELSE LET config_data_entry == config_data[Head(collect)]
             instance_oid == config_data_entry.instance
         IN  build_collect_map_replace(Tail(collect),
                 [k \in DOMAIN map \cup {instance_oid} |->
                     IF k = instance_oid THEN Range(config_data_entry.values) ELSE map[k]])

\* for collect in &device.collect { entry = collect_map.entry(instance_oid)
\*     .or_insert_with(HashSet::new); for value in values { entry.insert(value) } }
RECURSIVE build_collect_map(_, _)
build_collect_map(collect, map) ==
    IF collect = <<>> THEN map
    ELSE LET config_data_entry == config_data[Head(collect)]
             instance_oid == config_data_entry.instance
             entry == IF instance_oid \in DOMAIN map THEN map[instance_oid] ELSE {}
         IN  build_collect_map(Tail(collect),
                 [k \in DOMAIN map \cup {instance_oid} |->
                     IF k = instance_oid
                     THEN entry \cup Range(config_data_entry.values)
                     ELSE map[k]])

\* A bulk-walk of the log: of an instance column (value <<>>) or of a value column.
BulkWalk(instance, value) == [instance |-> instance, value |-> value]

CycleInit ==
    /\ device_collect \in DeviceCollects
    /\ device_collect_map = <<>>
    /\ map_pc = "build"
    /\ keys_left = {}
    /\ map_key = <<>>
    /\ vals_left = {}
    /\ bulkwalks = <<>>
    /\ SenderIdle
    /\ CollectIdle
    /\ WalkIdle
    /\ DeviceIdle
    /\ FormatIdle
    /\ SanitizeIdle
    /\ KeyIdle
    /\ ResolveIdle
    /\ StartIdle
    /\ ConfigIdle

\* collect_device_: condense mibs to connect, then the client and the session
condense_collect_map ==
    /\ map_pc = "build"
    /\ device_collect_map' = build_collect_map(device_collect, <<>>)
    /\ map_pc' = "loop"
    /\ UNCHANGED <<device_collect, keys_left, map_key, vals_left, bulkwalks>>
    /\ UNCHANGED <<senderVars, collectVars, walkVars, deviceVars, formatVars, sanitizeVars, keyVars, resolveVars, startVars, configVars>>

\* loop { let start_time = Instant::now(); for (collect_key, collect_values) in &collect_map
cycle_begin ==
    /\ map_pc \in {"loop", "done"}
    /\ keys_left' = DOMAIN device_collect_map
    /\ map_key' = <<>>
    /\ vals_left' = {}
    /\ bulkwalks' = <<>>
    /\ map_pc' = "keys"
    /\ UNCHANGED <<device_collect, device_collect_map>>
    /\ UNCHANGED <<senderVars, collectVars, walkVars, deviceVars, formatVars, sanitizeVars, keyVars, resolveVars, startVars, configVars>>

\* let table_names = snmp_fetch_table(vec![collect_key.clone()], ..)?;
\* (a HashMap: the entries come in any order)
walk_collect_key ==
    /\ map_pc = "keys"
    /\ \E k \in keys_left, ok \in BOOLEAN :
          /\ bulkwalks' = Append(bulkwalks, BulkWalk(k, <<>>))
          /\ IF ok
             THEN /\ map_key' = k
                  /\ keys_left' = keys_left \ {k}
                  /\ vals_left' = device_collect_map[k]
                  /\ map_pc' = "values"
             ELSE /\ map_pc' = "error"
                  /\ UNCHANGED <<keys_left, map_key, vals_left>>
    /\ UNCHANGED <<device_collect, device_collect_map>>
    /\ UNCHANGED <<senderVars, collectVars, walkVars, deviceVars, formatVars, sanitizeVars, keyVars, resolveVars, startVars, configVars>>

\* for collect_value in collect_values { let table_values = snmp_fetch_table(..)?;
\* the join, and the workaround GetRequest, which may fail as well }
walk_collect_value ==
    /\ map_pc = "values"
    /\ \E v \in vals_left, ok \in BOOLEAN :
          /\ bulkwalks' = Append(bulkwalks, BulkWalk(map_key, v))
          /\ IF ok
             THEN /\ vals_left' = vals_left \ {v}
                  /\ map_pc' = "values"
             ELSE /\ map_pc' = "error"
                  /\ UNCHANGED vals_left
    /\ UNCHANGED <<device_collect, device_collect_map, keys_left, map_key>>
    /\ UNCHANGED <<senderVars, collectVars, walkVars, deviceVars, formatVars, sanitizeVars, keyVars, resolveVars, startVars, configVars>>

\* the value columns of the entry are done: next entry of collect_map
next_collect_key ==
    /\ map_pc = "values"
    /\ vals_left = {}
    /\ map_pc' = "keys"
    /\ UNCHANGED <<device_collect, device_collect_map, keys_left, map_key, vals_left, bulkwalks>>
    /\ UNCHANGED <<senderVars, collectVars, walkVars, deviceVars, formatVars, sanitizeVars, keyVars, resolveVars, startVars, configVars>>

\* the entries are done: the cycle completed, snmp_duration is measured
cycle_complete ==
    /\ map_pc = "keys"
    /\ keys_left = {}
    /\ map_pc' = "done"
    /\ UNCHANGED <<device_collect, device_collect_map, keys_left, map_key, vals_left, bulkwalks>>
    /\ UNCHANGED <<senderVars, collectVars, walkVars, deviceVars, formatVars, sanitizeVars, keyVars, resolveVars, startVars, configVars>>

\* collect_device_safe: after the backoff collect_device_ starts over
cycle_restart ==
    /\ map_pc = "error"
    /\ map_pc' = "build"
    /\ device_collect_map' = <<>>
    /\ keys_left' = {}
    /\ map_key' = <<>>
    /\ vals_left' = {}
    /\ bulkwalks' = <<>>
    /\ UNCHANGED device_collect
    /\ UNCHANGED <<senderVars, collectVars, walkVars, deviceVars, formatVars, sanitizeVars, keyVars, resolveVars, startVars, configVars>>

CycleNext ==
    \/ condense_collect_map
    \/ cycle_begin
    \/ walk_collect_key
    \/ walk_collect_value
    \/ next_collect_key
    \/ cycle_complete
    \/ cycle_restart

CycleSpec == CycleInit /\ [][CycleNext]_vars

\* ------------------------------------------------------------- cycle claims
\* The distinct instance OIDs and (instance OID, value OID) pairs configured.
InstanceOids == {config_data[device_collect[i]].instance : i \in DOMAIN device_collect}

InstanceValuePairs ==
    UNION {{BulkWalk(config_data[device_collect[i]].instance, v)
              : v \in Range(config_data[device_collect[i]].values)}
           : i \in DOMAIN device_collect}

Count(s, x) == Cardinality({i \in DOMAIN s : s[i] = x})

\* C15: a polling cycle that completed without error made exactly one bulk-walk
\* per distinct instance OID of the device's data entries, exactly one per
\* distinct (instance OID, value OID) pair, and no other.
WalkedOncePerCycle ==
    map_pc = "done" =>
        /\ \A k \in InstanceOids : Count(bulkwalks, BulkWalk(k, <<>>)) = 1
        /\ \A w \in InstanceValuePairs : Count(bulkwalks, w) = 1
        /\ Len(bulkwalks) = Cardinality(InstanceOids) + Cardinality(InstanceValuePairs)

\* C15 witness: a cycle completed for a device whose two data entries share the
\* instance column and one value column.
WalkedOncePerCycleWitness ==
    /\ map_pc = "done"
    /\ Len(device_collect) = 2
    /\ device_collect[1] # device_collect[2]
    /\ Cardinality(InstanceOids) = 1
    /\ Len(bulkwalks) = 3

\* ------------------------------------------------- output.rs: metric names
\* Strings are sequences of characters.
RECURSIVE replace(_, _, _)
replace(s, from, to) ==
    IF s = <<>> THEN <<>>
    ELSE (IF Head(s) = from THEN to ELSE <<Head(s)>>) \o replace(Tail(s), from, to)

\* A faulty variant: a dot becomes a single underscore.
sanitize_carbon_single(s) ==
    replace(replace(replace(s, "-", <<"_">>), ".", <<"_">>), "/", <<"_">>)

\* s.replace('-', "_").replace('.', "__").replace('/', "_")
sanitize_carbon(s) ==
    replace(replace(replace(s, "-", <<"_">>), ".", <<"_", "_">>), "/", <<"_">>)

\* A faulty variant: the value symbol is sanitized as well.
format_key_sanitize_all(device_name, variable_part, metric_name) ==
    sanitize_carbon(device_name) \o <<".">> \o sanitize_carbon(variable_part)
        \o <<".">> \o sanitize_carbon(metric_name)

\* format!("{}.{}.{}", sanitize_carbon(device_name), sanitize_carbon(variable_part), metric_name)
format_key(device_name, variable_part, metric_name) ==
    sanitize_carbon(device_name) \o <<".">> \o sanitize_carbon(variable_part)
        \o <<".">> \o metric_name

\* ------------------------------------------------- main.rs: the formatter
\* format!("{}", n) of an integer: its decimal digits, with a sign when negative.
DigitChars == <<"0", "1", "2", "3", "4", "5", "6", "7", "8", "9">>

RECURSIVE Digits(_)
Digits(n) ==
    IF n < 10 THEN <<DigitChars[n + 1]>>
    ELSE Append(Digits(n \div 10), DigitChars[(n % 10) + 1])

Decimal(n) == IF n < 0 THEN <<"-">> \o Digits(-n) ELSE Digits(n)

VarUnsignedInt(i) == [kind |-> "UnsignedInt", n |-> i]

\* The symbolic OIDs "MODULE::symbol" of the configuration, and the oid-map
\* main builds from them.
SymbolicOid(module, symbol) == [module |-> module, symbol |-> symbol]

ifName == SymbolicOid(<<"I", "F">>, <<"n", "m">>)

ifInOctets == SymbolicOid(<<"I", "F">>, <<"i", "n">>)

oid_var_bind_map == [name \in {ifName, ifInOctets} |-> IF name = ifName THEN <<1>> ELSE <<2>>]

\* full_val_name.split("::").nth(1)
val_name_of(full_val_name) == full_val_name.symbol

\* The octets of the String values of the model: VarString(i) holds Octets[i].
Octets == <<<<"e", "/", "1">>, <<"u", "p">>, <<"e", "xFF">>>>

\* String::from_utf8_lossy: a byte that is not UTF-8 becomes U+FFFD.
from_utf8_lossy(s) == [i \in DOMAIN s |-> IF s[i] = "xFF" THEN "uFFFD" ELSE s[i]]

\* snmp.rs var_numeric_value_to_string: Some(text) for Int, String, ObjectId,
\* Counter, UnsignedInt and BigCounter, None otherwise.
var_numeric_value_to_string(value) ==
    CASE value.kind = "String" -> <<from_utf8_lossy(Octets[value.n])>>
      [] value.kind \in {"Int", "Counter", "UnsignedInt", "BigCounter"} -> <<Decimal(value.n)>>
      [] OTHER -> <<>>

\* snmp::var_bind_to_i128: Some(n) for Int, Counter, UnsignedInt and BigCounter,
\* None otherwise.
var_bind_to_i128(var_bind) ==
    IF var_bind.value.kind \in {"Int", "Counter", "UnsignedInt", "BigCounter"}
    THEN <<var_bind.value.n>>
    ELSE <<>>

\* The device every reading of the model comes from.
device_name == <<"r", "-", "A">>

\* stat_result.rs SnmpStatResult as the formatter sees it; the timestamp is the
\* number of the reading.
Reading(timestamp, key, value) ==
    [device |-> device_name, timestamp |-> timestamp, key |-> key, value |-> value]

\* output.rs CarbonMetricValue
CarbonMetricValue(timestamp, metric, value) ==
    [timestamp |-> timestamp, metric |-> metric, value |-> value]

\* The keys the collector sends: the String of an instance-column row.
ReadingKeys == {VarBind(<<1, 1>>, VarString(1))}

\* The values the collector sends: a row of a configured value column holding
\* any variant, or a row with two index components.
ReadingValues ==
    {VarBind(<<2, 1>>, v) : v \in {VarInt(-12), VarCounter(7), VarUnsignedInt(30),
                                   BigCounter(105), VarString(2), NoSuchInstance}}
    \cup {VarBind(<<2, 1, 1>>, VarCounter(7))}

FormatInit ==
    /\ snmp_chan_receiver = <<>>
    /\ fmt_pc = "recv"
    /\ fmt_received = <<>>
    /\ carbon_chan_sender = <<>>
    /\ results_sent = 0
    /\ SenderIdle
    /\ CollectIdle
    /\ WalkIdle
    /\ DeviceIdle
    /\ CycleIdle
    /\ SanitizeIdle
    /\ KeyIdle
    /\ ResolveIdle
    /\ StartIdle
    /\ ConfigIdle

\* collector.rs: channel.send(SnmpStatResult { device, timestamp, key, value }).unwrap()
snmp_chan_send ==
    /\ results_sent < MaxReadings
    /\ \E key \in ReadingKeys, value \in ReadingValues :
          snmp_chan_receiver' =
              Append(snmp_chan_receiver, Reading(results_sent + 1, key, value))
    /\ results_sent' = results_sent + 1
    /\ UNCHANGED <<fmt_pc, fmt_received, carbon_chan_sender>>
    /\ UNCHANGED <<senderVars, collectVars, walkVars, deviceVars, cycleVars, sanitizeVars, keyVars, resolveVars, startVars, configVars>>

\* A faulty variant: the metric is put in front of the metrics sent before.
result_loop_prepend ==
    /\ fmt_pc = "recv"
    /\ snmp_chan_receiver # <<>>
    /\ LET res == Head(snmp_chan_receiver)
           result_value_name_oid == SubSeq(res.value.oid, 1, Len(res.value.oid) - 1)
           names == {name \in DOMAIN oid_var_bind_map :
                        oid_var_bind_map[name] = result_value_name_oid}
       IN  /\ snmp_chan_receiver' = Tail(snmp_chan_receiver)
           /\ fmt_received' = Append(fmt_received, res)
           /\ IF names = {}
              THEN /\ fmt_pc' = "panic"
                   /\ UNCHANGED carbon_chan_sender
              ELSE LET val_name == val_name_of(CHOOSE name \in names : TRUE)
                       key_value == var_numeric_value_to_string(res.key.value)
                       value == var_bind_to_i128(res.value)
                   IN  /\ fmt_pc' = "recv"
                       /\ IF key_value = <<>> \/ value = <<>>
                          THEN UNCHANGED carbon_chan_sender
                          ELSE carbon_chan_sender' =
                                   <<CarbonMetricValue(res.timestamp,
                                       format_key(res.device, key_value[1], val_name),
                                       Decimal(value[1]))>> \o carbon_chan_sender
    /\ UNCHANGED results_sent
    /\ UNCHANGED <<senderVars, collectVars, walkVars, deviceVars, cycleVars, sanitizeVars, keyVars, resolveVars, startVars, configVars>>

\* main: one turn of the processing loop: recv, the reverse lookup of the value
\* OID without its last component (find_map(..).unwrap()), the key string, the
\* numeric value, format_key, send.
result_loop ==
    /\ fmt_pc = "recv"
    /\ snmp_chan_receiver # <<>>
    /\ LET res == Head(snmp_chan_receiver)
           result_value_name_oid == SubSeq(res.value.oid, 1, Len(res.value.oid) - 1)
           names == {name \in DOMAIN oid_var_bind_map :
                        oid_var_bind_map[name] = result_value_name_oid}
       IN  /\ snmp_chan_receiver' = Tail(snmp_chan_receiver)
           /\ fmt_received' = Append(fmt_received, res)
           /\ IF names = {}
              THEN /\ fmt_pc' = "panic"
                   /\ UNCHANGED carbon_chan_sender
              ELSE LET val_name == val_name_of(CHOOSE name \in names : TRUE)
                       key_value == var_numeric_value_to_string(res.key.value)
                       value == var_bind_to_i128(res.value)
                   IN  /\ fmt_pc' = "recv"
                       /\ IF key_value = <<>> \/ value = <<>>
                          THEN UNCHANGED carbon_chan_sender
                          ELSE carbon_chan_sender' = Append(carbon_chan_sender,
                                   CarbonMetricValue(res.timestamp,
                                       format_key(res.device, key_value[1], val_name),
                                       Decimal(value[1])))
    /\ UNCHANGED results_sent
    /\ UNCHANGED <<senderVars, collectVars, walkVars, deviceVars, cycleVars, sanitizeVars, keyVars, resolveVars, startVars, configVars>>

FormatNext ==
    \/ snmp_chan_send
    \/ result_loop

FormatSpec == FormatInit /\ [][FormatNext]_vars

\* --------------------------------------------------------- formatter claims
\* The metrics sent for the reading with timestamp ts.
MetricsOf(ts) == SelectSeq(carbon_chan_sender, LAMBDA m : m.timestamp = ts)

IsInteger(value) == value.kind \in {"Int", "Counter", "UnsignedInt", "BigCounter"}

\* The integer a sequence of decimal digits, with or without a sign, stands for.
RECURSIVE ParseDigits(_)
ParseDigits(s) ==
    IF s = <<>> THEN 0
    ELSE 10 * ParseDigits(SubSeq(s, 1, Len(s) - 1))
         + (CHOOSE d \in 0..9 : DigitChars[d + 1] = s[Len(s)])

ParseDecimal(s) == IF Head(s) = "-" THEN 0 - ParseDigits(Tail(s)) ELSE ParseDigits(s)

\* C17: for every reading the formatter received, exactly one metric was sent
\* if its value is Int, Counter, UnsignedInt or BigCounter, and that metric's
\* value is the decimal form of the integer; no metric was sent otherwise.
FormatterNumericRule ==
    \A r \in Range(fmt_received) :
        IF IsInteger(r.value.value)
        THEN /\ Len(MetricsOf(r.timestamp)) = 1
             /\ ParseDecimal(MetricsOf(r.timestamp)[1].value) = r.value.value.n
        ELSE MetricsOf(r.timestamp) = <<>>

\* C18: whatever the shape of a reading, the formatter forwards one metric for
\* it or drops it, and goes on receiving the readings that follow.
ShapeErrorsDoNotStop ==
    /\ fmt_pc = "recv"
    /\ \A r \in Range(fmt_received) : Len(MetricsOf(r.timestamp)) <= 1

\* The readings the formatter has a metric name, a key string and an integer for.
Forwardable(r) ==
    /\ \E name \in DOMAIN oid_var_bind_map :
          oid_var_bind_map[name] = SubSeq(r.value.oid, 1, Len(r.value.oid) - 1)
    /\ r.key.value.kind \in {"Int", "String", "ObjectId", "Counter", "UnsignedInt", "BigCounter"}
    /\ IsInteger(r.value.value)

\* C19: the metrics the formatter sent are the readings it received with the
\* readings it does not forward removed, in the order received, one metric per
\* reading; and the readings are received in the order they were sent.
FormatterFifo ==
    /\ [i \in DOMAIN carbon_chan_sender |-> carbon_chan_sender[i].timestamp]
         = [i \in DOMAIN SelectSeq(fmt_received, Forwardable) |->
                SelectSeq(fmt_received, Forwardable)[i].timestamp]
    /\ [i \in 1..results_sent |-> i]
         = [i \in DOMAIN fmt_received |-> fmt_received[i].timestamp]
             \o [i \in DOMAIN snmp_chan_receiver |-> snmp_chan_receiver[i].timestamp]

\* C19 witness: of three readings received the second was dropped, and the first
\* and the third were forwarded in that order.
FormatterFifoWitness ==
    /\ fmt_pc = "recv"
    /\ Len(fmt_received) = 3
    /\ Len(carbon_chan_sender) = 2
    /\ carbon_chan_sender[1].timestamp = 1
    /\ carbon_chan_sender[2].timestamp = 3

\* ------------------------------------------- output.rs: sanitize_carbon calls
\* The characters of the names: a letter, the three characters sanitize_carbon
\* replaces, and the underscore it writes.
Chars == {"a", "-", ".", "/", "_"}

SanitizeInit ==
    /\ san_pc = "call"
    /\ san_in \in SeqsUpTo(Chars, MaxLen)
    /\ san_out = <<>>
    /\ SenderIdle
    /\ CollectIdle
    /\ WalkIdle
    /\ DeviceIdle
    /\ CycleIdle
    /\ FormatIdle
    /\ KeyIdle
    /\ ResolveIdle
    /\ StartIdle
    /\ ConfigIdle

\* format_key: sanitize_carbon(device_name), sanitize_carbon(variable_part)
sanitize_call ==
    /\ san_pc = "call"
    /\ san_out' = sanitize_carbon(san_in)
    /\ san_pc' = "return"
    /\ UNCHANGED san_in
    /\ UNCHANGED <<senderVars, collectVars, walkVars, deviceVars, cycleVars, formatVars, keyVars, resolveVars, startVars, configVars>>

\* a sanitized name is sanitized again
sanitize_again ==
    /\ san_pc = "return"
    /\ san_in' = san_out
    /\ san_out' = <<>>
    /\ san_pc' = "call"
    /\ UNCHANGED <<senderVars, collectVars, walkVars, deviceVars, cycleVars, formatVars, keyVars, resolveVars, startVars, configVars>>

SanitizeNext ==
    \/ sanitize_call
    \/ sanitize_again

SanitizeSpec == SanitizeInit /\ [][SanitizeNext]_vars

\* --------------------------------------------------------- sanitizer claims
\* What each character becomes.
Sanitized(c) ==
    CASE c = "-" -> <<"_">>
      [] c = "." -> <<"_", "_">>
      [] c = "/" -> <<"_">>
      [] OTHER -> <<c>>

RECURSIVE Flatten(_)
Flatten(ss) == IF ss = <<>> THEN <<>> ELSE Head(ss) \o Flatten(Tail(ss))

\* C20: sanitize_carbon turns every '-' into '_', every '.' into '__' and every
\* '/' into '_' and leaves the rest; "a-b.c/d" becomes "a_b__c_d"; a string
\* with none of the three characters is returned as it is, and so is the
\* result of sanitize_carbon.
SanitizerRule ==
    /\ sanitize_carbon(<<"a", "-", "b", ".", "c", "/", "d">>)
         = <<"a", "_", "b", "_", "_", "c", "_", "d">>
    /\ san_pc = "return" =>
          /\ san_out = Flatten([i \in DOMAIN san_in |-> Sanitized(san_in[i])])
          /\ (Range(san_in) \cap {"-", ".", "/"} = {}) => san_out = san_in
          /\ Range(san_out) \cap {"-", ".", "/"} = {}
          /\ sanitize_carbon(san_out) = san_out

\* C20 witness: a string holding each of the three characters was sanitized.
SanitizerRuleWitness ==
    /\ san_pc = "return"
    /\ {"-", ".", "/"} \subseteq Range(san_in)
    /\ san_out = <<"_", "_", "_", "_">>

\* ------------------------------------------------ output.rs: format_key calls
KeyInit ==
    /\ fk_pc = "call"
    /\ fk_device \in SeqsUpTo(Chars, MaxPartLen)
    /\ fk_variable \in SeqsUpTo(Chars, MaxPartLen)
    /\ fk_metric \in SeqsUpTo(Chars, MaxPartLen)
    /\ fk_key = <<>>
    /\ SenderIdle
    /\ CollectIdle
    /\ WalkIdle
    /\ DeviceIdle
    /\ CycleIdle
    /\ FormatIdle
    /\ SanitizeIdle
    /\ ResolveIdle
    /\ StartIdle
    /\ ConfigIdle

\* main: let key = output::format_key(&result.device, &key_value, &val_name);
format_key_call ==
    /\ fk_pc = "call"
    /\ fk_key' = format_key(fk_device, fk_variable, fk_metric)
    /\ fk_pc' = "return"
    /\ UNCHANGED <<fk_device, fk_variable, fk_metric>>
    /\ UNCHANGED <<senderVars, collectVars, walkVars, deviceVars, cycleVars, formatVars,
                   sanitizeVars, resolveVars, startVars, configVars>>

\* the next reading of the same device and value column: another key string
format_key_next ==
    /\ fk_pc = "return"
    /\ fk_variable' \in SeqsUpTo(Chars, MaxPartLen)
    /\ fk_key' = <<>>
    /\ fk_pc' = "call"
    /\ UNCHANGED <<fk_device, fk_metric>>
    /\ UNCHANGED <<senderVars, collectVars, walkVars, deviceVars, cycleVars, formatVars,
                   sanitizeVars, resolveVars, startVars, configVars>>

KeyNext ==
    \/ format_key_call
    \/ format_key_next

KeySpec == KeyInit /\ [][KeyNext]_vars

\* --------------------------------------------------------- format_key claims
SanitizedString(s) == Flatten([i \in DOMAIN s |-> Sanitized(s[i])])

Dots(s) == Cardinality({i \in DOMAIN s : s[i] = "."})

\* C21: format_key returns the sanitized device name, a dot, the sanitized key
\* string, a dot and the value symbol as it came; the part before the value
\* symbol holds exactly two dots; router-A, Ethernet1/1 and ifInOctets give
\* router_A.Ethernet1_1.ifInOctets.
MetricNameComposition ==
    /\ format_key(<<"r", "-", "A">>, <<"E", "1", "/", "1">>, <<"i", "f", "I", "n">>)
         = <<"r", "_", "A", ".", "E", "1", "_", "1", ".", "i", "f", "I", "n">>
    /\ fk_pc = "return" =>
          /\ fk_key = SanitizedString(fk_device) \o <<".">>
                        \o SanitizedString(fk_variable) \o <<".">> \o fk_metric
          /\ Len(fk_key) >= Len(fk_metric)
          /\ SubSeq(fk_key, Len(fk_key) - Len(fk_metric) + 1, Len(fk_key)) = fk_metric
          /\ Dots(SubSeq(fk_key, 1, Len(fk_key) - Len(fk_metric))) = 2

\* C21 witness: a device name and a key string that sanitize_carbon changes,
\* and a value symbol it would change, went through format_key.
MetricNameCompositionWitness ==
    /\ fk_pc = "return"
    /\ fk_device = <<"-">>
    /\ fk_variable = <<".">>
    /\ fk_metric = <<"-">>
    /\ fk_key = <<"_", ".", "_", "_", ".", "-">>

\* ------------------------------------------- snmp.rs: build_snmp_mib_tree
\* mib_parser::Assignment {name, value}: the value is the text "{ parent n }",
\* or None; numbers are written in decimal digits.
Assignment(name, parent, n) ==
    [name |-> name, value |-> <<<<"{", parent, Decimal(n), "}">>>>]

AssignmentNoValue(name) == [name |-> name, value |-> <<>>]

Import(symbol, from) == [symbol |-> symbol, from |-> from]

\* The parsed modules: SNMPv2-SMI down to iso, IF-MIB under the imported mib-2,
\* a vendor module under the imported enterprises, a module whose parents form
\* a cycle, and a module with an assignment that has no value.
Modules ==
    [smi |-> [assignments |-> <<Assignment("org", "iso", 3),
                                Assignment("dod", "org", 6),
                                Assignment("internet", "dod", 1),
                                Assignment("mgmt", "internet", 2),
                                Assignment("mib-2", "mgmt", 1),
                                Assignment("private", "internet", 4),
                                Assignment("enterprises", "private", 1)>>,
              imports |-> {}],
     ifmib |-> [assignments |-> <<Assignment("interfaces", "mib-2", 2),
                                  Assignment("ifTable", "interfaces", 2),
                                  Assignment("ifEntry", "ifTable", 1),
                                  Assignment("ifDescr", "ifEntry", 2),
                                  Assignment("ifInOctets", "ifEntry", 10),
                                  Assignment("ifMIB", "mib-2", 31),
                                  Assignment("ifMIBObjects", "ifMIB", 1),
                                  Assignment("ifXTable", "ifMIBObjects", 1),
                                  Assignment("ifXEntry", "ifXTable", 1),
                                  Assignment("ifName", "ifXEntry", 1)>>,
                imports |-> {Import("mib-2", "smi")}],
     vendor |-> [assignments |-> <<Assignment("acme", "enterprises", 9),
                                   Assignment("box", "acme", 1),
                                   Assignment("boxTable", "box", 4)>>,
                 imports |-> {Import("enterprises", "smi")}],
     loop |-> [assignments |-> <<Assignment("ring", "chain", 1),
                                 Assignment("chain", "ring", 2),
                                 Assignment("leaf", "ring", 7)>>,
               imports |-> {}],
     bare |-> [assignments |-> <<AssignmentNoValue("top"),
                                 Assignment("sub", "top", 5)>>,
               imports |-> {}]]

\* The symbols of the configuration: any symbol a module assigns, and one that
\* no module knows.
Symbols(m) ==
    {Modules[m].assignments[i].name : i \in DOMAIN Modules[m].assignments}
        \cup {"nowhere"}

\* module.assignments.iter().filter(|v| v.name == oid_field)
assignments_named(m, name) ==
    SelectSeq(Modules[m].assignments, LAMBDA v : v.name = name)

\* assignment_parent_oid.parse(): the number a string of decimal digits stands for.
RECURSIVE parse(_)
parse(s) ==
    IF s = <<>> THEN 0
    ELSE 10 * parse(SubSeq(s, 1, Len(s) - 1))
         + ((CHOOSE d \in DOMAIN DigitChars : DigitChars[d] = s[Len(s)]) - 1)

\* let mut full_oid: Vec<u64> = vec![1, 3, 6, 1, 2, 1]; // mib-2 base
mib2_base == <<1, 3, 6, 1, 2, 1>>

ResolveInit ==
    /\ res_pc = "loop"
    /\ res_module \in DOMAIN Modules
    /\ res_symbol \in Symbols(res_module)
    /\ oid_field = res_symbol
    /\ tree_oid = <<>>
    /\ full_oid = <<>>
    /\ looked_up = <<>>
    /\ SenderIdle
    /\ CollectIdle
    /\ WalkIdle
    /\ DeviceIdle
    /\ CycleIdle
    /\ FormatIdle
    /\ SanitizeIdle
    /\ KeyIdle
    /\ StartIdle
    /\ ConfigIdle

\* build_snmp_mib_tree: one turn of its loop, and after the break the return
\* of the mib-2 base followed by tree_oid reversed. The unwraps panic when no
\* assignment has the name or the assignment has no value.
build_snmp_mib_tree ==
    /\ res_pc = "loop"
    /\ Len(looked_up) < MaxLookups
    /\ looked_up' = Append(looked_up, oid_field)
    /\ LET found == assignments_named(res_module, oid_field)
       IN  IF found = <<>> \/ found[1].value = <<>>
           THEN /\ res_pc' = "panic"
                /\ UNCHANGED <<oid_field, tree_oid, full_oid>>
           ELSE LET assignment_split == found[1].value[1]
                    assignment_parent_name == assignment_split[2]
                    assignment_parent_oid == assignment_split[3]
                IN  /\ tree_oid' = Append(tree_oid, parse(assignment_parent_oid))
                    /\ oid_field' = assignment_parent_name
                    /\ IF assignment_parent_name = "mib-2"
                       THEN /\ res_pc' = "returned"
                            /\ full_oid' = mib2_base \o Reverse(tree_oid')
                       ELSE /\ res_pc' = "loop"
                            /\ UNCHANGED full_oid
    /\ UNCHANGED <<res_module, res_symbol>>
    /\ UNCHANGED <<senderVars, collectVars, walkVars, deviceVars, cycleVars, formatVars,
                   sanitizeVars, keyVars, startVars, configVars>>

\* main: for oid in required_oids { build_snmp_mib_tree(..) }: the next symbol
required_oids_next ==
    /\ res_pc = "returned"
    /\ res_pc' = "loop"
    /\ res_module' \in DOMAIN Modules
    /\ res_symbol' \in Symbols(res_module')
    /\ oid_field' = res_symbol'
    /\ tree_oid' = <<>>
    /\ full_oid' = <<>>
    /\ looked_up' = <<>>
    /\ UNCHANGED <<senderVars, collectVars, walkVars, deviceVars, cycleVars, formatVars,
                   sanitizeVars, keyVars, startVars, configVars>>

ResolveNext ==
    \/ build_snmp_mib_tree
    \/ required_oids_next

ResolveSpec == ResolveInit /\ [][ResolveNext]_vars

\* ----------------------------------------------------------- resolver claims
\* The OID of a symbol by its assignment chain down to iso, root first; <<>>
\* when the chain does not get there. With imports followed or within the
\* module only.
RECURSIVE ChainOid(_, _, _, _)
ChainOid(m, symbol, imports, fuel) ==
    IF symbol = "iso" THEN <<1>>
    ELSE IF fuel = 0 THEN <<>>
    ELSE LET found == assignments_named(m, symbol)
             from == {i.from : i \in {x \in Modules[m].imports : x.symbol = symbol}}
         IN  IF found # <<>>
             THEN IF found[1].value = <<>> THEN <<>>
                  ELSE LET parent == ChainOid(m, found[1].value[1][2], imports, fuel - 1)
                       IN  IF parent = <<>> THEN <<>>
                           ELSE Append(parent, ParseDecimal(found[1].value[1][3]))
             ELSE IF imports /\ from # {}
                  THEN ChainOid(CHOOSE f \in from : TRUE, symbol, imports, fuel - 1)
                  ELSE <<>>

\* More steps than any chain without a cycle takes.
ChainFuel == 2 * MaxLookups

LocalOid == ChainOid(res_module, res_symbol, FALSE, ChainFuel)

ImportedOid == ChainOid(res_module, res_symbol, TRUE, ChainFuel)

\* C22: for a symbol whose assignment chain ends at iso the resolver returns,
\* and what it returns begins with 1 and is the root followed by the
\* sub-identifiers of the chain, root first.
ResolverCorrectness ==
    LocalOid # <<>> =>
        /\ res_pc # "panic"
        /\ res_pc = "returned" => (full_oid[1] = 1 /\ full_oid = LocalOid)

\* C23: when the chain of a symbol leaves the module through an imported
\* symbol, the resolver goes on in the module it is imported from and returns
\* the OID of the imported symbol followed by the sub-identifiers below it.
ResolverImportStep ==
    (LocalOid = <<>> /\ ImportedOid # <<>>) =>
        /\ res_pc # "panic"
        /\ res_pc = "returned" => full_oid = ImportedOid

\* C24: the resolver looks no symbol up twice without failing: a cycle in the
\* parent chain ends the call with a failure.
ResolverDetectsCycles ==
    (\E i, j \in DOMAIN looked_up : i < j /\ looked_up[i] = looked_up[j])
        => res_pc = "error"

\* The working symbol cannot be resolved: it is not iso, and it has no
\* assignment and no import in the module, or an assignment without a value.
CannotResolve ==
    /\ oid_field # "iso"
    /\ LET found == assignments_named(res_module, oid_field)
       IN  IF found = <<>>
           THEN \A i \in Modules[res_module].imports : i.symbol # oid_field
           ELSE found[1].value = <<>>

\* C25: the resolver does not abort on a symbol it cannot resolve; the call
\* ends with an error returned to the caller.
ResolverFailureIsError ==
    CannotResolve => res_pc \in {"loop", "error"}

\* ------------------------------------------------------- main.rs: startup
\* The data entries files may define: two entries on one instance column.
DataEntries ==
    [ifA |-> [instance |-> "ifName", values |-> <<"ifInOctets">>],
     ifB |-> [instance |-> "ifName", values |-> <<"ifOutOctets">>]]

\* The symbolic OIDs of a data entry: data.instance and data.values.
entry_oids(name) == {DataEntries[name].instance} \cup Range(DataEntries[name].values)

AllOids == UNION {entry_oids(name) : name \in DOMAIN DataEntries}

\* The devices of the configuration, and the collect lists they may have:
\* names of data entries, defined or not.
DeviceNames == {"r1", "r2"}

StartInit ==
    /\ start_pc = "validate"
    /\ data_keys \in SUBSET DOMAIN DataEntries
    /\ \E first \in SeqsUpTo(DOMAIN DataEntries, MaxCollect),
          second \in SeqsUpTo(DOMAIN DataEntries, 1) :
          devices = [d \in DeviceNames |-> IF d = "r1" THEN first ELSE second]
    /\ mib_symbols \in SUBSET AllOids
    /\ required_oids = {}
    /\ resolved = {}
    /\ spawned = {}
    /\ SenderIdle
    /\ CollectIdle
    /\ WalkIdle
    /\ DeviceIdle
    /\ CycleIdle
    /\ FormatIdle
    /\ SanitizeIdle
    /\ KeyIdle
    /\ ResolveIdle
    /\ ConfigIdle

\* A faulty variant: the collect lists are not checked against config.data.
validate_config_skip ==
    /\ start_pc = "validate"
    /\ start_pc' = "resolve"
    /\ required_oids' = UNION {entry_oids(name) : name \in data_keys}
    /\ UNCHANGED <<data_keys, devices, mib_symbols, resolved, spawned>>
    /\ UNCHANGED <<senderVars, collectVars, walkVars, deviceVars, cycleVars, formatVars,
                   sanitizeVars, keyVars, resolveVars, configVars>>

\* main: for each device, for each collector: bail! unless config.data has the
\* key; then required_oids takes the instance and the values of every entry.
validate_config ==
    /\ start_pc = "validate"
    /\ IF \E d \in DeviceNames : \E i \in DOMAIN devices[d] : devices[d][i] \notin data_keys
       THEN /\ start_pc' = "failed"
            /\ UNCHANGED required_oids
       ELSE /\ start_pc' = "resolve"
            /\ required_oids' = UNION {entry_oids(name) : name \in data_keys}
    /\ UNCHANGED <<data_keys, devices, mib_symbols, resolved, spawned>>
    /\ UNCHANGED <<senderVars, collectVars, walkVars, deviceVars, cycleVars, formatVars,
                   sanitizeVars, keyVars, resolveVars, configVars>>

\* main: for oid in required_oids { full_oid = build_snmp_mib_tree(..)?;
\* oid_var_bind_map.insert(oid, ..) }: a symbol that does not resolve ends main,
\* by the error or by a panic of the resolver.
resolve_required_oid ==
    /\ start_pc = "resolve"
    /\ \E oid \in required_oids :
          IF oid \in mib_symbols
          THEN /\ resolved' = resolved \cup {oid}
               /\ required_oids' = required_oids \ {oid}
               /\ UNCHANGED start_pc
          ELSE /\ start_pc' = "failed"
               /\ UNCHANGED <<resolved, required_oids>>
    /\ UNCHANGED <<data_keys, devices, mib_symbols, spawned>>
    /\ UNCHANGED <<senderVars, collectVars, walkVars, deviceVars, cycleVars, formatVars,
                   sanitizeVars, keyVars, resolveVars, configVars>>

\* main: every symbol is resolved: the runtime is built and started
start_runtime ==
    /\ start_pc = "resolve"
    /\ required_oids = {}
    /\ start_pc' = "spawn"
    /\ UNCHANGED <<data_keys, devices, mib_symbols, required_oids, resolved, spawned>>
    /\ UNCHANGED <<senderVars, collectVars, walkVars, deviceVars, cycleVars, formatVars,
                   sanitizeVars, keyVars, resolveVars, configVars>>

\* main: for (device_name, _) in config.devices.iter() { spawn(collect_device_safe(..)) }
spawn_collector ==
    /\ start_pc = "spawn"
    /\ \E d \in DeviceNames \ spawned : spawned' = spawned \cup {d}
    /\ UNCHANGED <<start_pc, data_keys, devices, mib_symbols, required_oids, resolved>>
    /\ UNCHANGED <<senderVars, collectVars, walkVars, deviceVars, cycleVars, formatVars,
                   sanitizeVars, keyVars, resolveVars, configVars>>

\* main: spawn(carbon_send_safe(..)), then the processing loop of the formatter
spawn_output ==
    /\ start_pc = "spawn"
    /\ DeviceNames \subseteq spawned
    /\ spawned' = spawned \cup {"carbon_output", "formatter"}
    /\ start_pc' = "running"
    /\ UNCHANGED <<data_keys, devices, mib_symbols, required_oids, resolved>>
    /\ UNCHANGED <<senderVars, collectVars, walkVars, deviceVars, cycleVars, formatVars,
                   sanitizeVars, keyVars, resolveVars, configVars>>

StartNext ==
    \/ validate_config
    \/ resolve_required_oid
    \/ start_runtime
    \/ spawn_collector
    \/ spawn_output

StartSpec == StartInit /\ [][StartNext]_vars

\* ------------------------------------------------------------ startup claims
\* Every collect name of every device is a key of config.data, and the oid-map
\* holds the instance and every value of those entries.
ConfigurationResolved ==
    \A d \in DeviceNames : \A i \in DOMAIN devices[d] :
        /\ devices[d][i] \in data_keys
        /\ entry_oids(devices[d][i]) \subseteq resolved

\* C26: a task is spawned only when every collect name of every device is
\* defined in config.data and the oid-map holds the instance and every value
\* of every data entry; a startup that failed has spawned no task.
StartupOrdering ==
    /\ spawned # {} =>
          /\ ConfigurationResolved
          /\ \A name \in data_keys : entry_oids(name) \subseteq resolved
    /\ start_pc = "failed" => spawned = {}
    /\ (\E d \in DeviceNames : \E i \in DOMAIN devices[d] : devices[d][i] \notin data_keys)
          => start_pc \in {"validate", "failed"}
    /\ (\E name \in data_keys : ~(entry_oids(name) \subseteq mib_symbols))
          => start_pc \in {"validate", "resolve", "failed"}

\* C26 witness: both devices collect, two data entries are in use, and all
\* tasks were spawned.
StartupOrderingWitness ==
    /\ start_pc = "running"
    /\ DeviceNames \subseteq spawned
    /\ {devices["r1"][i] : i \in DOMAIN devices["r1"]} = DOMAIN DataEntries
    /\ devices["r2"] # <<>>
    /\ resolved = AllOids

\* -------------------------------------------------- config.rs: from_directory
\* An Option is the set of its values: {} is None, {x} is Some(x). A HashMap is
\* the set of its <<key, entry>> pairs, one pair per key.
MaxFiles == 2

Outputs == {"carbon-a", "carbon-b"}
DataKeys == {"ifA", "ifB"}
DeviceKeys == {"r1"}
Entries == {"entry-a", "entry-b"}

Keys(map) == {pair[1] : pair \in map}

HashMaps(keys) ==
    {map \in SUBSET (keys \X Entries) :
        \A p \in map : \A q \in map : p[1] = q[1] => p = q}

Option(values) == {{}} \cup {{v} : v \in values}

\* OptionalConfig: what from_file_optional returns for one file
OptionalConfigs ==
    [output : Option(Outputs),
     data : Option(HashMaps(DataKeys)),
     devices : Option(HashMaps(DeviceKeys) \ {{}})]

\* The output of the file differs from the one seen before.
output_differs(current, tmp) ==
    \E output \in current : \E tmp_output \in tmp : output # tmp_output

\* Some entry of the file has a key the merged map holds with another entry.
entry_differs(current, tmp) ==
    \E data \in current : \E tmp_data \in tmp :
        \E tmp_entry \in tmp_data : \E entry \in data :
            entry[1] = tmp_entry[1] /\ entry # tmp_entry

\* A faulty variant: the map of the file replaces the merged one.
merge_section_replace(current, tmp) ==
    IF tmp = {} THEN current ELSE tmp

\* The section after the file: None keeps the map of the file, Some(map)
\* inserts the entries whose key it does not hold.
merge_section(current, tmp) ==
    IF tmp = {} THEN current
    ELSE IF current = {} THEN tmp
    ELSE {data \cup {tmp_entry \in tmp_data : tmp_entry[1] \notin Keys(data)} :
             data \in current, tmp_data \in tmp}

\* The directories of up to n files
RECURSIVE Directories(_)
Directories(n) ==
    IF n = 0 THEN {{}}
    ELSE LET fewer == Directories(n - 1)
         IN  fewer \cup {files \cup {file} : files \in fewer, file \in OptionalConfigs}

ConfigInit ==
    /\ cfg_pc = "merge"
    /\ directory \in Directories(MaxFiles)
    /\ files_left = directory
    /\ merged_output = {}
    /\ merged_data = {}
    /\ merged_devices = {}
    /\ SenderIdle
    /\ CollectIdle
    /\ WalkIdle
    /\ DeviceIdle
    /\ CycleIdle
    /\ FormatIdle
    /\ SanitizeIdle
    /\ KeyIdle
    /\ ResolveIdle
    /\ StartIdle

\* from_directory: one pass of  for file in files { .. }, the files in the
\* order the directory scan gives them
merge_file ==
    /\ cfg_pc = "merge"
    /\ \E file \in files_left :
          /\ files_left' = files_left \ {file}
          /\ IF \/ output_differs(merged_output, file.output)
                \/ entry_differs(merged_data, file.data)
                \/ entry_differs(merged_devices, file.devices)
             THEN /\ cfg_pc' = "failed"
                  /\ UNCHANGED <<merged_output, merged_data, merged_devices>>
             ELSE /\ merged_output' = IF merged_output = {} THEN file.output
                                                            ELSE merged_output
                  /\ merged_data' = merge_section(merged_data, file.data)
                  /\ merged_devices' = merge_section(merged_devices, file.devices)
                  /\ UNCHANGED cfg_pc
    /\ UNCHANGED directory
    /\ UNCHANGED <<senderVars, collectVars, walkVars, deviceVars, cycleVars, formatVars,
                   sanitizeVars, keyVars, resolveVars, startVars>>

\* from_directory: Ok(Config { .. }), or bail! on a section no file has
from_directory_return ==
    /\ cfg_pc = "merge"
    /\ files_left = {}
    /\ cfg_pc' = IF merged_output = {} \/ merged_data = {} \/ merged_devices = {}
                 THEN "failed" ELSE "ok"
    /\ UNCHANGED <<directory, files_left, merged_output, merged_data, merged_devices>>
    /\ UNCHANGED <<senderVars, collectVars, walkVars, deviceVars, cycleVars, formatVars,
                   sanitizeVars, keyVars, resolveVars, startVars>>

ConfigNext ==
    \/ merge_file
    \/ from_directory_return

ConfigSpec == ConfigInit /\ [][ConfigNext]_vars

\* ------------------------------------------------------ from_directory claims
\* Two files of the directory define output differently, or one data key or
\* one device key with different entries.
Conflict ==
    \E f \in directory : \E g \in directory :
        \/ output_differs(f.output, g.output)
        \/ entry_differs(f.data, g.data)
        \/ entry_differs(f.devices, g.devices)

\* The key-wise union of one section over all files
UnionOfData == UNION {UNION f.data : f \in directory}
UnionOfDevices == UNION {UNION f.devices : f \in directory}

\* C27: whatever the order of the files, from_directory does not succeed on a
\* directory with a conflict, and has failed once the loop is over; without a
\* conflict the loop is left with the merged data and devices maps equal to
\* the key-wise union of the maps of all files, which is what Ok returns.
DirectoryMerge ==
    /\ Conflict => cfg_pc # "ok"
    /\ Conflict /\ files_left = {} => cfg_pc = "failed"
    /\ ~Conflict /\ files_left = {} =>
          /\ UNION merged_data = UnionOfData
          /\ UNION merged_devices = UnionOfDevices
          /\ cfg_pc = "failed" =>
                \/ merged_output = {}
                \/ merged_data = {}
                \/ merged_devices = {}

\* C27 witness: two files that share one data key with the same entry and
\* bring one data key each were merged, and from_directory returned Ok.
DirectoryMergeWitness ==
    /\ cfg_pc = "ok"
    /\ Cardinality(directory) = 2
    /\ \E f \in directory : \E g \in directory :
          /\ f # g
          /\ f.data # {} /\ g.data # {}
          /\ Keys(UNION f.data) = {"ifA"}
          /\ Keys(UNION g.data) = DataKeys
          /\ f.devices # {} /\ g.devices # {}
    /\ Keys(UNION merged_data) = DataKeys

====
